---- MODULE Spec2Model ----
(***************************************************************************)
(* Sandbox lifecycle controller (ContainerManager, src/unnamed/part_001)   *)
(* and terminal session registry (the /terminal ws handlers,               *)
(* src/backend/src/modules/auth/model.ts) of cloud-it.                     *)
(*                                                                         *)
(* A request to the container engine is outstanding from the step that     *)
(* issues it until the step in which the engine serves it; the step that   *)
(* serves it also runs the awaiting code up to its next request.  Code     *)
(* that resumes on shared maps (the run settling, stop / remove after the  *)
(* engine answered) is a step of its own, so other handlers run in         *)
(* between.                                                                *)
(***************************************************************************)
EXTENDS Integers, FiniteSets, Sequences, TLC

\* ---- bounds ----
NumTasks == 2
NumConns == 4
NumSessions == 3
MaxCalls == 4
MaxFaults == 1
MaxCloses == 1
MaxExits == 1
MaxOpening == 2
MaxTicks == 2
MaxEntryCalls == 3
MaxRead == 6
MaxWait == 2
MaxMsgs == 2
MaxChunks == 2

\* ---- constants of the source ----
MAX_SESSIONS_PER_PROJECT == 3
MAX_SESSIONS_PER_USER == 5

\* ---- identifiers ----
Projects == {"p1", "p2"}
\* the project the HTTP lifecycle routes are exercised on
LCProjects == {"p1"}
\* the projects terminal connections are opened on
TermProjects == {"p1"}
Users == {"u1", "u2"}
Tasks == {<<"t", i>> : i \in 1..NumTasks}
Conns == {<<"c", i>> : i \in 1..NumConns}
\* the connections opened while clients close and shells exit
TermConns == {<<"c", i>> : i \in 1..NumSessions}
Callers == Tasks \cup Conns
NoCaller == <<"none", 0>>
NoProject == "-"
NoUser == "-"
\* the Set objects the open handlers allocate with new Set()
Refs == {<<kind, c>> : kind \in {"P", "U"}, c \in Conns}
NoRef == <<"-", NoCaller>>

\* ALLOWED_NETWORK_MODES
ALLOWED_NETWORK_MODES == {"none", "bridge", "host"}
\* ALLOWED_RUNTIMES
ALLOWED_RUNTIMES == {"node", "python", "bun"}
\* the runtimes callers pass: the allowed ones and one that is not
Runtimes == {"node", "ruby"}
\* values of process.env.SANDBOX_NETWORK_MODE || 'bridge'
NetworkModes == ALLOWED_NETWORK_MODES \cup {"overlay"}
\* values of Number(process.env.SANDBOX_PREVIEW_PORT || 3000): an integer n,
\* a number with a fractional part ("80.5") or NaN ("http")
IntPort(n) == [kind |-> "int", n |-> n]
PreviewPorts ==
  {IntPort(3000), IntPort(0), IntPort(65536), [kind |-> "frac", n |-> 80], [kind |-> "nan", n |-> 0]}

\* ---- project identifiers as the strings callers pass ----
Hex == {"0", "1", "2", "3", "4", "5", "6", "7", "8", "9",
        "a", "b", "c", "d", "e", "f", "A", "B", "C", "D", "E", "F"}
Dash == <<"-">>
Seg8 == <<"3", "f", "a", "8", "5", "f", "6", "4">>
Seg4 == <<"5", "7", "1", "7">>
Seg12 == <<"2", "c", "9", "6", "3", "f", "6", "6", "a", "f", "a", "6">>
\* the text of each identifier: two well-formed v4 UUIDs (the second in upper
\* case), a version-1 UUID, a UUID with variant nibble c, a path
BadIds == {"x1", "x2", "x3"}
IdText ==
  [p1 |-> Seg8 \o Dash \o Seg4 \o Dash \o <<"4", "5", "6", "2">> \o Dash
            \o <<"b", "3", "f", "c">> \o Dash \o Seg12,
   p2 |-> <<"3", "F", "A", "8", "5", "F", "6", "4">> \o Dash \o Seg4 \o Dash
            \o <<"4", "5", "6", "2">> \o Dash \o <<"A", "3", "F", "C">> \o Dash \o Seg12,
   x1 |-> Seg8 \o Dash \o Seg4 \o Dash \o <<"1", "5", "6", "2">> \o Dash
            \o <<"b", "3", "f", "c">> \o Dash \o Seg12,
   x2 |-> Seg8 \o Dash \o Seg4 \o Dash \o <<"4", "5", "6", "2">> \o Dash
            \o <<"c", "3", "f", "c">> \o Dash \o Seg12,
   x3 |-> <<".", ".", "/", ".", ".", "/", "e", "t", "c">>]

\* UUID_RE.test(s):
\* /^[0-9a-f]{8}-[0-9a-f]{4}-4[0-9a-f]{3}-[89ab][0-9a-f]{3}-[0-9a-f]{12}$/i
UUID_RE(s) ==
  /\ Len(s) = 36
  /\ \A i \in 1..36 :
       CASE i \in {9, 14, 19, 24} -> s[i] = "-"
         [] i = 15 -> s[i] = "4"
         [] i = 20 -> s[i] \in {"8", "9", "a", "b", "A", "B"}
         [] OTHER -> s[i] \in Hex

\* assertSafeProjectId: TRUE when it returns, FALSE when it throws
assertSafeProjectId(p) == UUID_RE(IdText[p])

VARIABLES
  SANDBOX_NETWORK_MODE, \* process.env.SANDBOX_NETWORK_MODE || 'bridge'
  SANDBOX_PREVIEW_PORT, \* Number(process.env.SANDBOX_PREVIEW_PORT || 3000)
  reaper,               \* the idle reaper's sweep and the clock ticks so far
  rateMap,              \* Map userId -> { count, reset }
  rated,                \* the latest checkRateLimit call: its user, its result, the parity of the calls so far
  relay,                \* per connection: messages received and written, chunks received and sent
  att,                  \* dockerAttach: its socket, its header parser and the stream consumer
  faults,               \* how many engine / control socket failures may still occur
  ncalls,               \* lifecycle calls the HTTP routes have made
  nruns,                \* runs of _getOrCreateContainer started so far
  ncloses,              \* connections closed by their client so far
  nexits,               \* shell exits so far
  engine,               \* the container engine: project -> container
  lastUsedMap,          \* Map projectId -> timestamp
  creationLocks,        \* Map projectId -> caller owning the in-flight run
  call,                 \* one ContainerManager call per caller
  now,                  \* Date.now()
  conn,                 \* the terminal connections (ws, open handler, docker socket)
  sessionMap,           \* Map ws.id -> docker socket (its keys)
  projectSessions,      \* Map projectId -> Set object
  userSessions,         \* Map userId -> Set object
  sets                  \* the members of every Set object

lcVars == <<SANDBOX_NETWORK_MODE, SANDBOX_PREVIEW_PORT, reaper, rateMap, rated, relay, att, faults, ncalls, nruns, engine, lastUsedMap, creationLocks, call, now>>
regVars == <<sessionMap, projectSessions, userSessions, sets>>
vars == <<SANDBOX_NETWORK_MODE, SANDBOX_PREVIEW_PORT, reaper, rateMap, rated, relay, att, faults, ncalls, nruns, ncloses, nexits, engine, lastUsedMap, creationLocks,
          call, now, conn, sessionMap, projectSessions, userSessions, sets>>

\* ---- JS Map helpers ----
MapHas(m, k) == k \in DOMAIN m
MapSet(m, k, v) == [x \in (DOMAIN m) \cup {k} |-> IF x = k THEN v ELSE m[x]]
MapDelete(m, k) == [x \in (DOMAIN m) \ {k} |-> m[x]]
MapValues(m) == {m[x] : x \in DOMAIN m}
EmptyMap == [x \in {} |-> 0]

\* ---- the rate limiter (services/rateLimiter.ts) ----
WINDOW == 60000
LIMIT == 50
\* no checkRateLimit call was made yet
NoRated == [user |-> NoUser, ok |-> TRUE, odd |-> FALSE]

\* a limiter that refuses only once the count has passed LIMIT
checkRateLimitAboveLimit(m, userId, t) ==
  IF ~MapHas(m, userId) \/ t > m[userId].reset
  THEN [ok |-> TRUE, map |-> MapSet(m, userId, [count |-> 1, reset |-> t + WINDOW])]
  ELSE IF m[userId].count > LIMIT THEN [ok |-> FALSE, map |-> m]
  ELSE [ok |-> TRUE, map |-> [m EXCEPT ![userId].count = @ + 1]]

\* checkRateLimit(userId) at Date.now() = t on rateMap = m: the value it
\* returns and the map it leaves
checkRateLimit(m, userId, t) ==
  IF ~MapHas(m, userId)
  THEN [ok |-> TRUE, map |-> MapSet(m, userId, [count |-> 1, reset |-> t + WINDOW])]
  ELSE IF t > m[userId].reset
  THEN [ok |-> TRUE, map |-> MapSet(m, userId, [count |-> 1, reset |-> t + WINDOW])]
  ELSE IF m[userId].count >= LIMIT THEN [ok |-> FALSE, map |-> m]
  ELSE [ok |-> TRUE, map |-> [m EXCEPT ![userId].count = @ + 1]]

\* resetRateLimit(userId): rateMap.delete(userId)
resetRateLimit(m, userId) == MapDelete(m, userId)

\* ---- the container engine ----
Absent == [exists |-> FALSE, running |-> FALSE, mode |-> "none", env |-> FALSE, bind |-> FALSE]
\* a container as an earlier revision of the controller created it
\* (NetworkMode 'none', no PIP_CACHE_DIR / PATH entries, no port binding)
Legacy(r) == [exists |-> TRUE, running |-> r, mode |-> "none", env |-> FALSE, bind |-> FALSE]
\* the container docker.createContainer builds under network mode m
NewContainerModeNone(m) ==
  [exists |-> TRUE, running |-> FALSE, mode |-> "none", env |-> TRUE, bind |-> TRUE]
NewContainer(m) == [exists |-> TRUE, running |-> FALSE, mode |-> m, env |-> TRUE, bind |-> TRUE]
Current(m, r) == [NewContainer(m) EXCEPT !.running = r]

InitContainers ==
  {Absent} \cup {Legacy(r) : r \in BOOLEAN}
           \cup {Current(m, r) : m \in ALLOWED_NETWORK_MODES, r \in BOOLEAN}

\* info.NetworkSettings.Ports[PREVIEW_PORT_KEY]: the engine lists a published
\* host port only while the container runs on a bridge network
getPublishedPreviewPort(info) == info.running /\ info.mode = "bridge" /\ info.bind

requiresContainerRecreate(info) ==
  \/ info.mode # SANDBOX_NETWORK_MODE
  \/ ~info.env
  \/ ~getPublishedPreviewPort(info)

\* the engine's natural answer to a request, and the container afterwards
\* (dockerode rejects every status other than 2xx with err.statusCode)
EngineAnswer(req, c) ==
  CASE req = "inspect" -> IF c.exists THEN "ok" ELSE "404"
    [] req = "stop"    -> IF ~c.exists THEN "404" ELSE IF c.running THEN "ok" ELSE "304"
    [] req = "remove"  -> IF c.exists THEN "ok" ELSE "404"
    [] req = "start"   -> IF ~c.exists THEN "404" ELSE IF c.running THEN "304" ELSE "ok"
    [] req = "create"  -> IF c.exists THEN "409" ELSE "ok"

EngineEffect(req, c) ==
  IF EngineAnswer(req, c) # "ok" THEN c
  ELSE CASE req = "inspect" -> c
         [] req = "stop"    -> [c EXCEPT !.running = FALSE]
         [] req = "remove"  -> Absent
         [] req = "start"   -> [c EXCEPT !.running = TRUE]
         [] req = "create"  -> NewContainer(SANDBOX_NETWORK_MODE)

\* ---- ContainerManager calls ----
\* log: the engine requests the call has issued, in order; found / info: what
\* its inspect saw; run: which run of _getOrCreateContainer serves it;
\* dirty: another call changed the container after this call's last answer;
\* clean: no stop or remove overlapped the call; quiet: no other caller was
\* active on the project since this caller's previous call began
NoValue == [kind |-> "none"]
IdleCall ==
  [op |-> "none", proj |-> NoProject, pc |-> "idle", resp |-> "-",
   res |-> "-", join |-> NoCaller, rt |-> "-", val |-> NoValue,
   run |-> 0, dirty |-> FALSE, clean |-> TRUE,
   log |-> <<>>, found |-> "-", info |-> Absent,
   prevOp |-> "none", prevRes |-> "-", quiet |-> TRUE]

\* the observations (log, found, info, run, dirty, clean, quiet, prev...) are
\* kept for the calls of the HTTP routes only
Plain(rec) ==
  [rec EXCEPT !.run = 0, !.dirty = FALSE, !.clean = TRUE, !.log = <<>>, !.found = "-",
              !.info = Absent, !.prevOp = "none", !.prevRes = "-", !.quiet = TRUE]
Obs(j, rec) == IF j \in Tasks THEN rec ELSE Plain(rec)

EnginePcs == {"inspect", "stopOld", "removeOld", "start", "create", "startNew"}
\* the engine request a call at this pc has outstanding
ReqOf(pc) ==
  CASE pc = "inspect" -> "inspect"
    [] pc \in {"stopOld", "stop"} -> "stop"
    [] pc \in {"removeOld", "remove"} -> "remove"
    [] pc \in {"start", "startNew"} -> "start"
    [] pc = "create" -> "create"

InFlight(k) == call[k].pc \notin {"idle", "done"}
Free(k) == ~InFlight(k)

\* caller k starts the call rec on project p
Begin(k, p, rec) ==
  [j \in Callers |-> Obs(j,
     IF j = k
     THEN [rec EXCEPT !.proj = p, !.resp = "-", !.res = "-", !.val = NoValue,
                      !.dirty = FALSE, !.clean = TRUE,
                      !.log = <<>>, !.found = "-", !.info = Absent,
                      !.prevOp = IF call[k].proj = p THEN call[k].op ELSE "none",
                      !.prevRes = call[k].res,
                      !.quiet = IF call[k].op = "none" \/ call[k].proj # p
                                THEN \A o \in Callers \ {k} : ~(InFlight(o) /\ call[o].proj = p)
                                ELSE call[k].quiet]
     ELSE IF call[j].proj = p
          THEN [call[j] EXCEPT !.quiet = FALSE,
                               !.clean = @ /\ ~(InFlight(j) /\ rec.op \in {"stop", "remove"})]
          ELSE call[j])]

\* ContainerManager.markUsed
markUsed(m, p) == MapSet(m, p, now)

\* what the engine may answer to a request on container c; a failure of the
\* control socket check (assertDockerSocketAccessible) precedes the first
\* request of a call and is reported as "unavail"
Outcomes(req, c, first) ==
  {EngineAnswer(req, c)}
    \cup (IF faults > 0 THEN {"500"} ELSE {})
    \cup (IF faults > 0 /\ first THEN {"unavail"} ELSE {})
IsFault(a) == a \in {"500", "unavail"}

\* _getOrCreateContainer before its first engine request: the control socket
\* check, then the runtime, network mode and preview port checks
ValidPort(port) == port.kind = "int" /\ 1 <= port.n /\ port.n <= 65535
Validation(rt) ==
  IF rt \notin ALLOWED_RUNTIMES THEN "badrt"
  ELSE IF SANDBOX_NETWORK_MODE \notin ALLOWED_NETWORK_MODES THEN "badcfg"
  ELSE IF ~ValidPort(SANDBOX_PREVIEW_PORT) THEN "badcfg"
  ELSE "ok"
\* what the run of caller k may get at its outstanding request
RunOutcomes(k) ==
  LET pc == call[k].pc
      c == engine[call[k].proj]
  IN IF pc = "inspect" /\ Validation(call[k].rt) # "ok"
     THEN {Validation(call[k].rt)} \cup (IF faults > 0 THEN {"unavail"} ELSE {})
     ELSE Outcomes(ReqOf(pc), c, pc = "inspect")
\* answers that come without an engine request having been issued
NoRequest(a) == a \in {"unavail", "badid", "badrt", "badcfg"}

\* _getOrCreateContainer: where the run goes with answer a to its request at pc
\* ("ok" / "err": it returns / throws)
NextPc(pc, a, info) ==
  CASE pc = "inspect" ->
         IF a = "404" THEN "create"
         ELSE IF a # "ok" THEN "err"
         ELSE IF requiresContainerRecreate(info)
              THEN (IF info.running THEN "stopOld" ELSE "removeOld")
         ELSE IF ~info.running THEN "start"
         ELSE "ok"
    [] pc = "stopOld" -> IF a = "ok" THEN "removeOld" ELSE IF a = "404" THEN "create" ELSE "err"
    [] pc = "removeOld" -> IF a \in {"ok", "404"} THEN "create" ELSE "err"
    [] pc = "start" -> IF a = "ok" THEN "ok" ELSE IF a = "404" THEN "create" ELSE "err"
    [] pc = "create" -> IF a = "ok" THEN "startNew" ELSE "err"
    [] pc = "startNew" -> IF a = "ok" THEN "ok" ELSE "err"

\* getOrCreateContainer: creationLocks.get(projectId)
LockHolder(p) == IF MapHas(creationLocks, p) THEN creationLocks[p] ELSE NoCaller

\* ---- terminal connections ----
IdleConn ==
  [ws |-> "new", code |-> 0, proj |-> NoProject, user |-> NoUser, pc |-> "idle",
   projSet |-> NoRef, userSet |-> NoRef, gone |-> FALSE,
   sock |-> "none", exit |-> "no", cause |-> "-", reason |-> "-"]

\* prisma.projects.findFirst({ where: { id: projectId, userId } })
OwnerOf(p) == "u1"

\* the sandbox ends every stream attached to the container of project p
EndStreams(cn, p) ==
  [c \in Conns |->
     IF cn[c].proj = p /\ cn[c].sock = "open"
     THEN [cn[c] EXCEPT !.sock = "ended",
                        !.cause = IF @ = "-" /\ cn[c].ws = "open" THEN "stream" ELSE @]
     ELSE cn[c]]

\* the container an open handler inspected and is about to attach to (by
\* info.Id) is removed
ContainerGone(cn, p) ==
  [c \in Conns |->
     IF cn[c].proj = p /\ cn[c].pc = "attach" THEN [cn[c] EXCEPT !.gone = TRUE] ELSE cn[c]]

\* Set objects no map and no running open handler refers to any more
Collect(h, pm, um, cn) ==
  LET live == MapValues(pm) \cup MapValues(um)
                \cup {cn[c].projSet : c \in Conns} \cup {cn[c].userSet : c \in Conns}
  IN [r \in Refs |-> IF r \in live THEN h[r] ELSE {}]

\* cleanupSession: socket.destroy() of the session's docker socket
SockAfterCleanup(cn, c) ==
  [cn EXCEPT ![c].sock = IF c \in sessionMap /\ @ \in {"open", "ended"} THEN "destroyed" ELSE @,
             ![c].cause = IF @ = "-" /\ c \in sessionMap /\ cn[c].sock = "open" /\ cn[c].code = 1000
                          THEN "client" ELSE @]

\* cleanupSession: set.delete(wsId) on the sets the two indexes hold
SetsAfterCleanup(c, p, u) ==
  LET h1 == IF MapHas(projectSessions, p)
            THEN [sets EXCEPT ![projectSessions[p]] = @ \ {c}] ELSE sets
  IN IF MapHas(userSessions, u) THEN [h1 EXCEPT ![userSessions[u]] = @ \ {c}] ELSE h1

\* a cleanup that leaves the emptied set in the index
IndexAfterCleanupKeepsEmpty(m, key, c) == m

\* cleanupSession: if (set.size === 0) map.delete(key)
IndexAfterCleanup(m, key, c) ==
  IF MapHas(m, key) /\ sets[m[key]] \ {c} = {} THEN MapDelete(m, key) ELSE m

\* cleanupSession(ws.id, projectId, userId), called by the ws close handler
cleanupSession(c, cn) ==
  /\ conn' = SockAfterCleanup(cn, c)
  /\ sessionMap' = sessionMap \ {c}
  /\ projectSessions' = IndexAfterCleanup(projectSessions, cn[c].proj, c)
  /\ userSessions' = IndexAfterCleanup(userSessions, cn[c].user, c)
  /\ sets' = Collect(SetsAfterCleanup(c, cn[c].proj, cn[c].user),
                     projectSessions', userSessions', conn')

\* ws.close(code, reason) by the server: the close handler runs at once; on a
\* connection that is closed already it does nothing
WsClose(c, code, cn) ==
  IF cn[c].ws = "open"
  THEN cleanupSession(c, [cn EXCEPT ![c].ws = "closed", ![c].code = code])
  ELSE /\ conn' = cn
       /\ UNCHANGED <<sessionMap, projectSessions, userSessions>>
       /\ sets' = Collect(sets, projectSessions, userSessions, cn)
\* ws.close(code, reason), the reason kept with the connection it closes
WsCloseFor(c, code, reason, cn) ==
  WsClose(c, code, IF cn[c].ws = "open" THEN [cn EXCEPT ![c].reason = reason] ELSE cn)

\* ---- dockerAttach: the engine's reply, the header parser, the stream ----
CR == 13
LF == 10
SP == 32
\* character codes of the text of the replies and of the messages
Code ==
  ("H" :> 72) @@ ("T" :> 84) @@ ("P" :> 80) @@ ("/" :> 47) @@ ("." :> 46)
  @@ ("0" :> 48) @@ ("1" :> 49) @@ ("4" :> 52) @@ (" " :> SP)
  @@ ("U" :> 85) @@ ("G" :> 71) @@ ("R" :> 82) @@ ("A" :> 65) @@ ("D" :> 68)
  @@ ("E" :> 69) @@ ("N" :> 78) @@ ("F" :> 70) @@ ("p" :> 112) @@ ("g" :> 103)
  @@ ("r" :> 114) @@ ("a" :> 97) @@ ("d" :> 100) @@ ("e" :> 101) @@ (":" :> 58)
  @@ ("t" :> 116) @@ ("c" :> 99) @@ ("o" :> 111) @@ ("u" :> 117) @@ ("n" :> 110)
  @@ ("{" :> 123) @@ ("}" :> 125) @@ ("$" :> 36) @@ ("\r" :> CR) @@ ("\n" :> LF)
  @@ ("_" :> 95) @@ ("v" :> 118) @@ ("i" :> 105)
Bytes(text) == [i \in 1..Len(text) |-> Code[text[i]]]

\* HTTP/1.1 101 UPGRADED, one header line, the empty line
Upgraded ==
  Bytes(<<"H", "T", "T", "P", "/", "1", ".", "1", " ", "1", "0", "1", " ",
          "U", "P", "G", "R", "A", "D", "E", "D", "\r", "\n",
          "U", "p", "g", "r", "a", "d", "e", ":", " ", "t", "c", "p", "\r", "\n",
          "\r", "\n">>)
\* HTTP/1.1 404 Not Found and the empty line
NotFound ==
  Bytes(<<"H", "T", "T", "P", "/", "1", ".", "1", " ", "4", "0", "4", " ",
          "N", "o", "t", " ", "F", "o", "u", "n", "d", "\r", "\n", "\r", "\n">>)
\* a status line without a status code
NoStatus == Bytes(<<"H", "T", "T", "P", "/", "1", ".", "1", "\r", "\n", "\r", "\n">>)
\* the first bytes of the sandbox's stream: "$ " and a two-byte character
Prompt == <<36, SP, 195, 169>>
\* the replies of the engine: the header, and the bytes that follow it
Replies ==
  {[head |-> Upgraded, tail |-> Prompt],
   [head |-> Upgraded, tail |-> <<>>],
   [head |-> NotFound, tail |-> Bytes(<<"{", "}">>)],
   [head |-> NoStatus, tail |-> <<>>]}

\* String.prototype.indexOf: the index (from 0) of the first occurrence, or -1
IndexOf(s, pat) ==
  LET hits == {i \in 1..(Len(s) - Len(pat) + 1) : SubSeq(s, i, i + Len(pat) - 1) = pat}
  IN IF hits = {} THEN -1 ELSE (CHOOSE i \in hits : \A j \in hits : i <= j) - 1
\* headerBuf.split('\r\n')[0]
FirstLine(s) ==
  LET i == IndexOf(s, <<CR, LF>>) IN IF i = -1 THEN s ELSE SubSeq(s, 1, i)
\* line.split(' ')[1]; undefined is the empty token (parseInt gives NaN for both)
SecondToken(line) ==
  LET i == IndexOf(line, <<SP>>)
  IN IF i = -1 THEN <<>>
     ELSE LET rest == SubSeq(line, i + 2, Len(line))
              j == IndexOf(rest, <<SP>>)
          IN IF j = -1 THEN rest ELSE SubSeq(rest, 1, j)
NaN == -1
RECURSIVE DigitsValue(_, _)
DigitsValue(tok, acc) ==
  IF tok = <<>> \/ Head(tok) \notin 48..57 THEN acc
  ELSE DigitsValue(Tail(tok), acc * 10 + Head(tok) - 48)
\* parseInt of a token without blanks or sign: its leading digits, or NaN
parseInt(tok) ==
  IF tok = <<>> \/ Head(tok) \notin 48..57 THEN NaN ELSE DigitsValue(tok, 0)
\* chunk.toString('binary'): every byte becomes the code unit of its value
toBinaryString(chunk) == [i \in 1..Len(chunk) |-> chunk[i]]
\* Buffer.from(s, 'binary'): every code unit becomes its low byte
fromBinaryString(s) == [i \in 1..Len(s) |-> s[i] % 256]

\* no attach under way
IdleAttach ==
  [reply |-> [head |-> <<>>, tail |-> <<>>], pos |-> 0, sock |-> "none",
   headerBuf |-> <<>>, headerDone |-> FALSE, resolved |-> FALSE, result |-> "none",
   status |-> 0, flowing |-> FALSE, listeners |-> {}, buffer |-> <<>>,
   delivered |-> <<>>, waited |-> 0]

RECURSIVE addChunk(_, _, _)
\* socket.on('data', ...) of dockerAttach
onHeaderData(a, chunk) ==
  IF a.headerDone THEN a
  ELSE LET buf == a.headerBuf \o toBinaryString(chunk)
           headerEnd == IndexOf(buf, <<CR, LF, CR, LF>>)
       IN IF headerEnd = -1 THEN [a EXCEPT !.headerBuf = buf]
          ELSE LET statusCode == parseInt(SecondToken(FirstLine(buf)))
                   b == [a EXCEPT !.headerBuf = buf, !.headerDone = TRUE,
                                  !.status = statusCode]
               IN IF statusCode = 101
                  THEN LET leftover == fromBinaryString(SubSeq(buf, headerEnd + 5, Len(buf)))
                           u == IF Len(leftover) > 0 THEN addChunk(b, leftover, TRUE) ELSE b
                       IN [u EXCEPT !.listeners = {}, !.resolved = TRUE,
                                    !.result = "socket"]
                  ELSE [b EXCEPT !.result = "failed", !.sock = "destroyed"]
\* stream.emit('data', chunk): the listeners registered when the emit starts
emit(a, chunk) ==
  LET h == IF "header" \in a.listeners THEN onHeaderData(a, chunk) ELSE a
  IN IF "relay" \in a.listeners THEN [h EXCEPT !.delivered = @ \o chunk] ELSE h
\* Readable's addChunk, under push and unshift: a flowing stream with an
\* empty buffer and a 'data' listener emits the chunk at once, otherwise the
\* chunk is buffered
addChunk(a, chunk, addToFront) ==
  IF a.flowing /\ a.buffer = <<>> /\ a.listeners # {}
  THEN emit(a, chunk)
  ELSE [a EXCEPT !.buffer = IF addToFront THEN chunk \o @ ELSE @ \o chunk]
\* socket.push(chunk) of a read, and the flow of what is buffered
push(a, chunk) ==
  LET b == addChunk(a, chunk, FALSE)
  IN IF b.flowing /\ b.buffer # <<>> /\ b.listeners # {}
     THEN emit([b EXCEPT !.buffer = <<>>], b.buffer)
     ELSE b

\* ---- the relay between a client and its sandbox stream ----
\* '__v0_ping__'
WS_HEARTBEAT_PAYLOAD ==
  Bytes(<<"_", "_", "v", "0", "_", "p", "i", "n", "g", "_", "_">>)
\* U+FFFD, what a decoder puts for bytes that are not UTF-8
Replacement == 65533
\* Buffer.from(msg, 'utf8') of a string of code units below 0x800
RECURSIVE Utf8Encode(_)
Utf8Encode(s) ==
  IF s = <<>> THEN <<>>
  ELSE (IF Head(s) < 128 THEN <<Head(s)>>
        ELSE <<192 + (Head(s) \div 64), 128 + (Head(s) % 64)>>)
       \o Utf8Encode(Tail(s))
\* chunk.toString('utf8') of bytes below 0xe0: one- and two-byte sequences,
\* U+FFFD for a byte that does not start or complete one
RECURSIVE Utf8Decode(_)
Utf8Decode(b) ==
  IF b = <<>> THEN <<>>
  ELSE IF Head(b) < 128 THEN <<Head(b)>> \o Utf8Decode(Tail(b))
  ELSE IF /\ Head(b) \in 194..223 /\ Len(b) >= 2 /\ b[2] \in 128..191
       THEN <<(Head(b) - 192) * 64 + (b[2] - 128)>> \o Utf8Decode(Tail(Tail(b)))
  ELSE <<Replacement>> \o Utf8Decode(Tail(b))
\* the messages a client sends: text frames (code units) and a binary frame
Messages ==
  {[type |-> "string", data |-> Bytes(<<"e">>)],
   [type |-> "string", data |-> <<233>>],
   [type |-> "string", data |-> WS_HEARTBEAT_PAYLOAD],
   [type |-> "binary", data |-> <<195>>]}
\* the chunks a sandbox stream delivers
Chunks == {<<36, SP>>, <<195, 169>>, <<195>>}
\* Buffer.from(msg, 'utf8') / Buffer.from(msg as Uint8Array)
DataOf(msg) == IF msg.type = "string" THEN Utf8Encode(msg.data) ELSE msg.data
\* nothing received, written or sent
IdleRelay == [rcvd |-> <<>>, written |-> <<>>, out |-> <<>>, sent |-> <<>>]

\* the reaper between two sweeps
IdleReaper == [pc |-> "idle", at |-> 0, seen |-> {}, proj |-> NoProject, resp |-> "-", ticks |-> 0]

Init ==
  /\ SANDBOX_NETWORK_MODE \in ALLOWED_NETWORK_MODES
  /\ SANDBOX_PREVIEW_PORT = IntPort(3000)
  /\ reaper = IdleReaper
  /\ rateMap = EmptyMap
  /\ rated = NoRated
  /\ relay = [c \in Conns |-> IdleRelay]
  /\ att = IdleAttach
  /\ faults = MaxFaults
  /\ ncalls = 0
  /\ nruns = 0
  /\ ncloses = 0
  /\ nexits = 0
  /\ engine \in {e \in [Projects -> InitContainers] : \A p \in Projects \ LCProjects : e[p] = Absent}
  /\ lastUsedMap = EmptyMap
  /\ creationLocks = EmptyMap
  /\ call = [k \in Callers |-> IdleCall]
  /\ now = 0
  /\ conn = [c \in Conns |-> IdleConn]
  /\ sessionMap = {}
  /\ projectSessions = EmptyMap
  /\ userSessions = EmptyMap
  /\ sets = [r \in Refs |-> {}]

\* ContainerManager.getOrCreateContainer: join the in-flight run or start one
GetOrCreateRt(k, p, rt) ==
  /\ Free(k)
  /\ IF LockHolder(p) # NoCaller
     THEN /\ call' = Begin(k, p, [call[k] EXCEPT !.op = "goc", !.pc = "join", !.join = LockHolder(p),
                                                   !.rt = rt, !.run = call[LockHolder(p)].run])
          /\ UNCHANGED <<creationLocks, nruns>>
     ELSE /\ call' = Begin(k, p, [call[k] EXCEPT !.op = "goc", !.pc = "inspect", !.join = k,
                                                   !.rt = rt, !.run = nruns + 1])
          /\ creationLocks' = MapSet(creationLocks, p, k)
          /\ nruns' = IF k \in Tasks THEN nruns + 1 ELSE nruns
  /\ UNCHANGED <<SANDBOX_NETWORK_MODE, SANDBOX_PREVIEW_PORT, reaper, rateMap, rated, relay, att, faults, engine, lastUsedMap, now>>

\* getOrCreateContainer(projectId, project.runtime) with the runtime a project
\* row holds
GetOrCreate(k, p) == GetOrCreateRt(k, p, "node")

\* the engine's side of a request on project p by caller k with answer a:
\* the container changes, a stop or remove ends the streams attached to it,
\* and every other call on p whose answer is still travelling back learns
\* nothing of it
Served(k, p, a, req, rec, cn) ==
  LET c2 == IF a = "ok" THEN EngineEffect(req, engine[p]) ELSE engine[p]
  IN /\ engine' = [engine EXCEPT ![p] = c2]
     /\ faults' = IF IsFault(a) THEN faults - 1 ELSE faults
     /\ conn' = IF a = "ok" /\ req = "stop" THEN EndStreams(cn, p)
                ELSE IF a = "ok" /\ req = "remove" THEN ContainerGone(EndStreams(cn, p), p)
                ELSE cn
     /\ call' = [j \in Callers |-> Obs(j,
          IF j = k THEN rec
          ELSE IF call[j].proj = p
               THEN [call[j] EXCEPT
                       !.dirty = @ \/ (call[j].resp # "-" /\ c2 # engine[p]),
                       !.quiet = @ /\ rec.op = "goc",
                       !.clean = @ /\ ~(InFlight(j) /\ rec.op \in {"stop", "remove"})]
               ELSE call[j])]

\* the request enters the call's log unless the control socket check failed
Count(rec, req, a) == [rec EXCEPT !.log = IF ~NoRequest(a) THEN Append(@, req) ELSE @]

\* _getOrCreateContainer: the engine serves the run's outstanding request and
\* the run issues its next one, or is ready to return / throw
RunStep(k) ==
  /\ call[k].op = "goc" /\ call[k].pc \in EnginePcs /\ call[k].resp = "-"
  /\ LET p == call[k].proj
         pc == call[k].pc
         req == ReqOf(pc)
     IN \E a \in RunOutcomes(k) :
          LET nx == NextPc(pc, a, engine[p])
              r1 == Count(call[k], req, a)
              r2 == IF pc = "inspect" /\ a = "ok"
                    THEN [r1 EXCEPT !.found = "present", !.info = engine[p]]
                    ELSE IF pc = "inspect" /\ a = "404" THEN [r1 EXCEPT !.found = "absent"]
                    ELSE r1
              r3 == IF nx \in {"ok", "err"}
                    THEN [r2 EXCEPT !.resp = a, !.res = nx, !.dirty = FALSE]
                    ELSE [r2 EXCEPT !.pc = nx]
          IN Served(k, p, a, req, r3, conn)
  /\ UNCHANGED <<SANDBOX_NETWORK_MODE, SANDBOX_PREVIEW_PORT, reaper, rateMap, rated, relay, att, ncalls, nruns, ncloses, nexits, lastUsedMap, creationLocks, now>>
  /\ UNCHANGED regVars

\* the settling of a run whose lock entry would be deleted on success only
\* (.then in place of .finally)
SettleKeepsLockOnError(k) ==
  /\ call[k].op = "goc" /\ call[k].pc \in EnginePcs /\ call[k].resp # "-"
  /\ lastUsedMap' = IF call[k].res = "ok" THEN markUsed(lastUsedMap, call[k].proj) ELSE lastUsedMap
  /\ call' = [j \in Callers |-> Obs(j,
       IF j = k \/ (call[j].pc = "join" /\ call[j].join = k)
       THEN [call[k] EXCEPT !.pc = "done", !.join = call[j].join,
               !.clean = call[k].clean /\ call[j].clean, !.quiet = call[j].quiet,
               !.prevOp = call[j].prevOp, !.prevRes = call[j].prevRes, !.rt = call[j].rt]
       ELSE call[j])]
  /\ creationLocks' = IF call[k].res = "ok" THEN MapDelete(creationLocks, call[k].proj)
                      ELSE creationLocks
  /\ UNCHANGED <<SANDBOX_NETWORK_MODE, SANDBOX_PREVIEW_PORT, reaper, rateMap, rated, relay, att, faults, ncalls, nruns, ncloses, nexits, engine, now, conn>>
  /\ UNCHANGED regVars

\* the run of caller k settles: markUsed on success, .finally deletes the lock
\* entry of the project, and the starter and every caller that joined the
\* promise resume with its outcome
Settle(k) ==
  /\ call[k].op = "goc" /\ call[k].pc \in EnginePcs /\ call[k].resp # "-"
  /\ lastUsedMap' = IF call[k].res = "ok" THEN markUsed(lastUsedMap, call[k].proj) ELSE lastUsedMap
  /\ call' = [j \in Callers |-> Obs(j,
       IF j = k \/ (call[j].pc = "join" /\ call[j].join = k)
       THEN [call[k] EXCEPT !.pc = "done", !.join = call[j].join,
               !.clean = call[k].clean /\ call[j].clean, !.quiet = call[j].quiet,
               !.prevOp = call[j].prevOp, !.prevRes = call[j].prevRes, !.rt = call[j].rt]
       ELSE call[j])]
  /\ creationLocks' = MapDelete(creationLocks, call[k].proj)
  /\ UNCHANGED <<SANDBOX_NETWORK_MODE, SANDBOX_PREVIEW_PORT, reaper, rateMap, rated, relay, att, faults, ncalls, nruns, ncloses, nexits, engine, now, conn>>
  /\ UNCHANGED regVars

\* catch (err) { if (err.statusCode !== 404) throw err; }: the stop or remove
\* call of caller k returns or throws
Finish(k) ==
  [j \in Callers |-> Obs(j,
     IF j = k
     THEN [call[k] EXCEPT !.pc = "done",
                          !.res = IF call[k].resp \in {"ok", "404"} THEN "ok" ELSE "err"]
     ELSE IF call[j].proj = call[k].proj /\ InFlight(j) THEN [call[j] EXCEPT !.clean = FALSE]
     ELSE call[j])]

\* ContainerManager.stopContainer up to the engine's answer to container.stop
Stop(k, p, cn) ==
  /\ Free(k)
  /\ \E a \in Outcomes("stop", engine[p], TRUE) :
       Served(k, p, a, "stop",
              Count([Begin(k, p, [call[k] EXCEPT !.op = "stop", !.pc = "stop", !.join = NoCaller])[k]
                       EXCEPT !.resp = a], "stop", a), cn)
  /\ UNCHANGED <<SANDBOX_NETWORK_MODE, SANDBOX_PREVIEW_PORT, reaper, rateMap, rated, relay, att, nruns, lastUsedMap, creationLocks, now>>

\* stopContainer after container.stop({ t: 5 }): catch, finally; a terminal
\* session's closeForShellExit resumes at once (its catch swallows the error)
\* with ws.close(4000, 'Shell exited')
AfterStop(k) ==
  /\ call[k].op = "stop" /\ call[k].pc = "stop"
  /\ lastUsedMap' = IF call[k].resp = "unavail" THEN lastUsedMap
                    ELSE MapDelete(lastUsedMap, call[k].proj)
  /\ call' = Finish(k)
  /\ IF k \in Conns
     THEN WsCloseFor(k, 4000, "Shell exited", [conn EXCEPT ![k].exit = "done"])
     ELSE UNCHANGED <<conn, sessionMap, projectSessions, userSessions, sets>>
  /\ UNCHANGED <<SANDBOX_NETWORK_MODE, SANDBOX_PREVIEW_PORT, reaper, rateMap, rated, relay, att, faults, ncalls, nruns, ncloses, nexits, engine, creationLocks, now>>

\* ContainerManager.removeContainer up to the engine's answer to container.remove
Remove(k, p, cn) ==
  /\ Free(k)
  /\ \E a \in Outcomes("remove", engine[p], TRUE) :
       Served(k, p, a, "remove",
              Count([Begin(k, p, [call[k] EXCEPT !.op = "remove", !.pc = "remove", !.join = NoCaller])[k]
                       EXCEPT !.resp = a], "remove", a), cn)
  /\ UNCHANGED <<SANDBOX_NETWORK_MODE, SANDBOX_PREVIEW_PORT, reaper, rateMap, rated, relay, att, nruns, lastUsedMap, creationLocks, now>>

\* removeContainer after container.remove({ force: true }): catch, finally
AfterRemoveKeepsLock(k) ==
  /\ call[k].op = "remove" /\ call[k].pc = "remove"
  /\ lastUsedMap' = IF call[k].resp = "unavail" THEN lastUsedMap
                    ELSE MapDelete(lastUsedMap, call[k].proj)
  /\ call' = Finish(k)
  /\ UNCHANGED <<SANDBOX_NETWORK_MODE, SANDBOX_PREVIEW_PORT, reaper, rateMap, rated, relay, att, faults, ncalls, nruns, ncloses, nexits, engine, creationLocks, now, conn>>
  /\ UNCHANGED regVars
AfterRemove(k) ==
  /\ call[k].op = "remove" /\ call[k].pc = "remove"
  /\ lastUsedMap' = IF call[k].resp = "unavail" THEN lastUsedMap
                    ELSE MapDelete(lastUsedMap, call[k].proj)
  /\ creationLocks' = IF call[k].resp = "unavail" THEN creationLocks
                      ELSE MapDelete(creationLocks, call[k].proj)
  /\ call' = Finish(k)
  /\ UNCHANGED <<SANDBOX_NETWORK_MODE, SANDBOX_PREVIEW_PORT, reaper, rateMap, rated, relay, att, faults, ncalls, nruns, ncloses, nexits, engine, now, conn>>
  /\ UNCHANGED regVars

\* ---- the HTTP lifecycle routes (runtime.ts: /start, /stop, DELETE) ----
\* a request is handled by the first task that has no call in flight
Handles(k) == \A j \in Tasks : j[2] < k[2] => InFlight(j)
RouteStart(k, p) ==
  /\ Handles(k) /\ ncalls < MaxCalls /\ ncalls' = ncalls + 1
  /\ GetOrCreate(k, p)
  /\ UNCHANGED <<ncloses, nexits, conn>>
  /\ UNCHANGED regVars
RouteStop(k, p) ==
  /\ Handles(k) /\ ncalls < MaxCalls /\ ncalls' = ncalls + 1
  /\ Stop(k, p, conn)
  /\ UNCHANGED <<ncloses, nexits>>
  /\ UNCHANGED regVars
RouteDelete(k, p) ==
  /\ Handles(k) /\ ncalls < MaxCalls /\ ncalls' = ncalls + 1
  /\ Remove(k, p, conn)
  /\ UNCHANGED <<ncloses, nexits>>
  /\ UNCHANGED regVars

NextLC ==
  \/ \E k \in Tasks, p \in LCProjects : RouteStart(k, p)
  \/ \E k \in Tasks, p \in LCProjects : RouteStop(k, p)
  \/ \E k \in Tasks, p \in LCProjects : RouteDelete(k, p)
  \/ \E k \in Callers : RunStep(k)
  \/ \E k \in Callers : Settle(k)
  \/ \E k \in Callers : AfterStop(k)
  \/ \E k \in Callers : AfterRemove(k)

SpecLC == Init /\ [][NextLC]_vars

\* ---- the controller's entry points called with any identifier, the idle
\* ---- reaper and the clock ----
\* IDLE_TIMEOUT, and the period of the reaper's setInterval
IDLE_TIMEOUT == 30 * 60 * 1000
REAPER_INTERVAL == 60000
\* the identifiers the entry points are called with
EntryIds == {"p1"} \cup BadIds
\* the configurations the process is started under
Configs ==
  {<<m, IntPort(3000)>> : m \in {"bridge", "overlay"}}
    \cup {<<"bridge", port>> : port \in PreviewPorts}
ValidConfigs == {<<"bridge", IntPort(3000)>>}

\* an entry point whose assertSafeProjectId(projectId) throws
Reject(k, p, op) ==
  [Begin(k, p, [call[k] EXCEPT !.op = op, !.join = NoCaller])
     EXCEPT ![k].pc = "done", ![k].resp = "badid", ![k].res = "err"]

\* ContainerManager.getOrCreateContainer(projectId, runtime): with no run in
\* flight, _getOrCreateContainer throws at assertSafeProjectId before its
\* first await, and the rejected promise's finally removes the lock entry
EntryGetOrCreate(k, p, rt) ==
  /\ Handles(k) /\ Free(k) /\ ncalls < MaxEntryCalls /\ ncalls' = ncalls + 1
  /\ IF LockHolder(p) = NoCaller /\ ~assertSafeProjectId(p)
     THEN /\ call' = Reject(k, p, "goc")
          /\ UNCHANGED <<SANDBOX_NETWORK_MODE, SANDBOX_PREVIEW_PORT, reaper, rateMap, rated, relay, att, faults, nruns, engine,
                         lastUsedMap, creationLocks, now>>
     ELSE GetOrCreateRt(k, p, rt)
  /\ UNCHANGED <<ncloses, nexits, conn>>
  /\ UNCHANGED regVars

\* ContainerManager.stopContainer(projectId)
EntryStop(k, p) ==
  /\ Handles(k) /\ Free(k) /\ ncalls < MaxEntryCalls /\ ncalls' = ncalls + 1
  /\ IF ~assertSafeProjectId(p)
     THEN /\ call' = Reject(k, p, "stop")
          /\ UNCHANGED <<SANDBOX_NETWORK_MODE, SANDBOX_PREVIEW_PORT, reaper, rateMap, rated, relay, att, faults, nruns, engine,
                         lastUsedMap, creationLocks, now, conn>>
     ELSE Stop(k, p, conn)
  /\ UNCHANGED <<ncloses, nexits>>
  /\ UNCHANGED regVars

\* ContainerManager.removeContainer(projectId)
EntryRemove(k, p) ==
  /\ Handles(k) /\ Free(k) /\ ncalls < MaxEntryCalls /\ ncalls' = ncalls + 1
  /\ IF ~assertSafeProjectId(p)
     THEN /\ call' = Reject(k, p, "remove")
          /\ UNCHANGED <<SANDBOX_NETWORK_MODE, SANDBOX_PREVIEW_PORT, reaper, rateMap, rated, relay, att, faults, nruns, engine,
                         lastUsedMap, creationLocks, now, conn>>
     ELSE Remove(k, p, conn)
  /\ UNCHANGED <<ncloses, nexits>>
  /\ UNCHANGED regVars

\* getStatus: { exists: true, running: info.State.Running }, or on 404
\* { exists: false, running: false }, or the error is rethrown
getStatusValue(a, info) ==
  IF a = "ok" THEN [kind |-> "status", exists |-> TRUE, running |-> info.running]
  ELSE IF a = "404" THEN [kind |-> "status", exists |-> FALSE, running |-> FALSE]
  ELSE [kind |-> "thrown"]

\* getPreview: available only if the container runs and a host port is
\* published; 404 gives available: false, another error is rethrown
getPreviewValue(a, info) ==
  IF a = "ok"
  THEN [kind |-> "preview", available |-> info.running /\ getPublishedPreviewPort(info)]
  ELSE IF a = "404" THEN [kind |-> "preview", available |-> FALSE]
  ELSE [kind |-> "thrown"]

ReadValue(op, a, info) ==
  IF op = "status" THEN getStatusValue(a, info) ELSE getPreviewValue(a, info)

\* getStatus / getPreview up to the engine's answer to container.inspect()
Read(k, p, op) ==
  /\ Free(k)
  /\ \E a \in Outcomes("inspect", engine[p], TRUE) :
       Served(k, p, a, "inspect",
              Count([Begin(k, p, [call[k] EXCEPT !.op = op, !.pc = "read", !.join = NoCaller])[k]
                       EXCEPT !.resp = a, !.val = ReadValue(op, a, engine[p])], "inspect", a), conn)
  /\ UNCHANGED <<SANDBOX_NETWORK_MODE, SANDBOX_PREVIEW_PORT, reaper, rateMap, rated, relay, att, nruns, lastUsedMap, creationLocks, now>>

\* getStatus / getPreview return their value or rethrow
AfterReadClearsTracking(k) ==
  /\ call[k].op \in {"status", "preview"} /\ call[k].pc = "read"
  /\ call' = [call EXCEPT ![k].pc = "done",
                          ![k].res = IF call[k].val.kind = "thrown" THEN "err" ELSE "ok"]
  /\ lastUsedMap' = MapDelete(lastUsedMap, call[k].proj)
  /\ UNCHANGED <<SANDBOX_NETWORK_MODE, SANDBOX_PREVIEW_PORT, reaper, rateMap, rated, relay, att, faults, ncalls, nruns, ncloses, nexits,
                 engine, creationLocks, now, conn>>
  /\ UNCHANGED regVars
AfterRead(k) ==
  /\ call[k].op \in {"status", "preview"} /\ call[k].pc = "read"
  /\ call' = [call EXCEPT ![k].pc = "done",
                          ![k].res = IF call[k].val.kind = "thrown" THEN "err" ELSE "ok"]
  /\ UNCHANGED <<SANDBOX_NETWORK_MODE, SANDBOX_PREVIEW_PORT, reaper, rateMap, rated, relay, att, faults, ncalls, nruns, ncloses, nexits,
                 engine, lastUsedMap, creationLocks, now, conn>>
  /\ UNCHANGED regVars

\* ContainerManager.getStatus(projectId) / getPreview(projectId)
EntryRead(k, p, op) ==
  /\ Handles(k) /\ Free(k) /\ ncalls < MaxEntryCalls /\ ncalls' = ncalls + 1
  /\ IF ~assertSafeProjectId(p)
     THEN /\ call' = Reject(k, p, op)
          /\ UNCHANGED <<SANDBOX_NETWORK_MODE, SANDBOX_PREVIEW_PORT, reaper, rateMap, rated, relay, att, faults, nruns, engine,
                         lastUsedMap, creationLocks, now, conn>>
     ELSE Read(k, p, op)
  /\ UNCHANGED <<ncloses, nexits>>
  /\ UNCHANGED regVars

\* ContainerManager.markUsed(projectId): lastUsedMap.set(projectId, Date.now())
EntryMarkUsed(p) ==
  /\ ncalls < MaxEntryCalls /\ ncalls' = ncalls + 1
  /\ lastUsedMap' = markUsed(lastUsedMap, p)
  /\ UNCHANGED <<SANDBOX_NETWORK_MODE, SANDBOX_PREVIEW_PORT, reaper, rateMap, rated, relay, att, faults, nruns, ncloses, nexits,
                 engine, creationLocks, call, now, conn>>
  /\ UNCHANGED regVars

\* getProjectWorkspacePath(projectId) -> safeWorkspacePath(projectId)
EntryWorkspacePath(k, p) ==
  /\ Handles(k) /\ Free(k) /\ ncalls < MaxEntryCalls /\ ncalls' = ncalls + 1
  /\ call' = IF assertSafeProjectId(p)
             THEN [Begin(k, p, [call[k] EXCEPT !.op = "path", !.join = NoCaller])
                     EXCEPT ![k].pc = "done", ![k].res = "ok", ![k].val = [kind |-> "path"]]
             ELSE Reject(k, p, "path")
  /\ UNCHANGED <<SANDBOX_NETWORK_MODE, SANDBOX_PREVIEW_PORT, reaper, rateMap, rated, relay, att, faults, nruns, ncloses, nexits,
                 engine, lastUsedMap, creationLocks, now, conn>>
  /\ UNCHANGED regVars

\* time passes: one reaper period, or the idle threshold
Tick(d) ==
  /\ reaper.ticks < MaxTicks
  /\ now' = now + d
  /\ reaper' = [reaper EXCEPT !.ticks = @ + 1]
  /\ UNCHANGED <<SANDBOX_NETWORK_MODE, SANDBOX_PREVIEW_PORT, rateMap, rated, relay, att, faults, ncalls, nruns, ncloses, nexits,
                 engine, lastUsedMap, creationLocks, call, conn>>
  /\ UNCHANGED regVars

\* the entries the sweep that captured `at` takes for idle and has not visited
Due(at, seen) ==
  {p \in DOMAIN lastUsedMap \ seen : at - lastUsedMap[p] > IDLE_TIMEOUT}

\* the reaper's callback fires: const now = Date.now() (a sweep that finds no
\* idle entry does nothing)
ReaperSweep ==
  /\ reaper.pc = "idle"
  /\ Due(now, {}) # {}
  /\ reaper' = [reaper EXCEPT !.pc = "scan", !.at = now, !.seen = {}]
  /\ UNCHANGED <<SANDBOX_NETWORK_MODE, SANDBOX_PREVIEW_PORT, rateMap, rated, relay, att, faults, ncalls, nruns, ncloses, nexits,
                 engine, lastUsedMap, creationLocks, call, now, conn>>
  /\ UNCHANGED regVars

\* the sweep's loop runs to its next idle entry and awaits
\* container.stop({ t: 5 }), which the engine serves, or the loop ends
ReaperNext ==
  /\ reaper.pc = "scan"
  /\ IF Due(reaper.at, reaper.seen) = {}
     THEN /\ reaper' = [reaper EXCEPT !.pc = "idle", !.seen = {}, !.at = 0]
          /\ UNCHANGED <<faults, engine, call, conn>>
     ELSE \E p \in Due(reaper.at, reaper.seen) :
            \E a \in Outcomes("stop", engine[p], FALSE) :
              /\ Served(NoCaller, p, a, "stop", [op |-> "stop"], conn)
              /\ reaper' = [reaper EXCEPT !.pc = "stop", !.proj = p, !.resp = a,
                                          !.seen = @ \cup {p}]
  /\ UNCHANGED <<SANDBOX_NETWORK_MODE, SANDBOX_PREVIEW_PORT, rateMap, rated, relay, att, ncalls, nruns, ncloses, nexits,
                 lastUsedMap, creationLocks, now>>
  /\ UNCHANGED regVars

\* the sweep resumes after the stop: the entry is deleted when the stop
\* succeeded or answered 404, another error is logged and the entry stays
ReaperAfterStop ==
  /\ reaper.pc = "stop"
  /\ lastUsedMap' = IF reaper.resp \in {"ok", "404"}
                    THEN MapDelete(lastUsedMap, reaper.proj) ELSE lastUsedMap
  /\ reaper' = [reaper EXCEPT !.pc = "scan", !.proj = NoProject, !.resp = "-"]
  /\ UNCHANGED <<SANDBOX_NETWORK_MODE, SANDBOX_PREVIEW_PORT, rateMap, rated, relay, att, faults, ncalls, nruns, ncloses, nexits,
                 engine, creationLocks, call, now, conn>>
  /\ UNCHANGED regVars

\* the main process of the sandbox of project p ends (Cmd ['/bin/sh', '-i']):
\* the container is stopped
SandboxExits(p) ==
  /\ engine[p].exists /\ engine[p].running /\ nexits < MaxExits
  /\ nexits' = nexits + 1
  /\ engine' = [engine EXCEPT ![p].running = FALSE]
  /\ conn' = EndStreams(conn, p)
  /\ call' = [j \in Callers |-> Obs(j,
       IF call[j].proj = p
       THEN [call[j] EXCEPT !.dirty = @ \/ call[j].resp # "-", !.quiet = FALSE]
       ELSE call[j])]
  /\ UNCHANGED <<SANDBOX_NETWORK_MODE, SANDBOX_PREVIEW_PORT, reaper, rateMap, rated, relay, att, faults, ncalls, nruns, ncloses,
                 lastUsedMap, creationLocks, now>>
  /\ UNCHANGED regVars

\* no call of a request handler is in flight
AllFree == \A j \in Tasks : Free(j)

\* the entry points called one call at a time, next to the reaper
NextEntry ==
  \/ \E k \in Tasks, p \in EntryIds : AllFree /\ EntryGetOrCreate(k, p, "node")
  \/ \E k \in Tasks, p \in EntryIds : AllFree /\ EntryStop(k, p)
  \/ \E k \in Tasks, p \in EntryIds : AllFree /\ EntryRemove(k, p)
  \/ \E k \in Tasks, p \in EntryIds, op \in {"status", "preview"} : AllFree /\ EntryRead(k, p, op)
  \/ \E p \in EntryIds : AllFree /\ EntryMarkUsed(p)
  \/ \E k \in Tasks, p \in EntryIds : AllFree /\ EntryWorkspacePath(k, p)
  \/ \E k \in Callers : RunStep(k)
  \/ \E k \in Callers : Settle(k)
  \/ \E k \in Callers : AfterStop(k)
  \/ \E k \in Callers : AfterRemove(k)
  \/ \E k \in Callers : AfterRead(k)
  \/ \E d \in {REAPER_INTERVAL, IDLE_TIMEOUT} : AllFree /\ Tick(d)
  \/ ReaperSweep
  \/ ReaperNext
  \/ ReaperAfterStop
  \/ \E p \in EntryIds : SandboxExits(p)

\* the process starts under one of the configurations cfgs, on a host
\* without sandboxes
InitUnder(cfgs) ==
  /\ \E cfg \in cfgs : SANDBOX_NETWORK_MODE = cfg[1] /\ SANDBOX_PREVIEW_PORT = cfg[2]
  /\ reaper = IdleReaper
  /\ rateMap = EmptyMap
  /\ rated = NoRated
  /\ relay = [c \in Conns |-> IdleRelay]
  /\ att = IdleAttach
  /\ faults = MaxFaults
  /\ ncalls = 0
  /\ nruns = 0
  /\ ncloses = 0
  /\ nexits = 0
  /\ engine = [p \in EntryIds |-> Absent]
  /\ lastUsedMap = EmptyMap
  /\ creationLocks = EmptyMap
  /\ call = [k \in Callers |-> IdleCall]
  /\ now = 0
  /\ conn = [c \in Conns |-> IdleConn]
  /\ sessionMap = {}
  /\ projectSessions = EmptyMap
  /\ userSessions = EmptyMap
  /\ sets = [r \in Refs |-> {}]

InitEntry == InitUnder(ValidConfigs)

SpecEntry == InitEntry /\ [][NextEntry]_vars

\* getOrCreateContainer called concurrently with allowed and other runtimes,
\* under valid and invalid configurations
NextConfig ==
  \/ \E k \in Tasks, rt \in Runtimes : EntryGetOrCreate(k, "p1", rt)
  \/ \E k \in Callers : RunStep(k)
  \/ \E k \in Callers : Settle(k)

InitConfig == InitUnder(Configs)

SpecConfig == InitConfig /\ [][NextConfig]_vars

\* ---- dockerAttach(containerId) ----
\* everything but the attach
attRest ==
  <<SANDBOX_NETWORK_MODE, SANDBOX_PREVIEW_PORT, reaper, rateMap, rated, relay, faults, ncalls, nruns, ncloses, nexits,
    engine, lastUsedMap, creationLocks, call, now, conn, sessionMap, projectSessions,
    userSessions, sets>>
\* the promise is resolved and the caller's continuation has not run yet
Continuing(a) == a.result = "socket" /\ "relay" \notin a.listeners

\* the 'connect' event: the request is written
AttachConnect ==
  /\ att.sock = "connecting"
  /\ att' = [att EXCEPT !.sock = "open"]
  /\ UNCHANGED attRest
\* the control socket cannot be opened: 'error', then 'close'
AttachConnectFails ==
  /\ att.sock = "connecting"
  /\ att' = [att EXCEPT !.sock = "closed", !.result = "error"]
  /\ UNCHANGED attRest
\* the next n bytes of the reply arrive in one read
EngineData(n) ==
  /\ att.sock = "open" /\ ~Continuing(att)
  /\ att.pos + n <= Len(att.reply.head) + Len(att.reply.tail)
  /\ att' = push([att EXCEPT !.pos = @ + n],
                 SubSeq(att.reply.head \o att.reply.tail, att.pos + 1, att.pos + n))
  /\ UNCHANGED attRest
\* the engine closes the connection: 'close'
EngineCloses ==
  /\ att.sock = "open" /\ ~Continuing(att)
  /\ att' = [att EXCEPT !.sock = "closed",
                        !.result = IF ~att.resolved /\ @ = "pending" THEN "closed" ELSE @]
  /\ UNCHANGED attRest
\* open(ws) resumes from await dockerAttach: dockerSocket.on('data', ...)
AttachConsume ==
  /\ Continuing(att)
  /\ att' = [att EXCEPT !.listeners = {"relay"}]
  /\ UNCHANGED attRest
\* time passes while the attach is pending
AttachWait ==
  /\ att.result = "pending" /\ att.sock \in {"connecting", "open"}
  /\ att.waited < MaxWait
  /\ att' = [att EXCEPT !.waited = @ + 1]
  /\ UNCHANGED attRest

NextAttach ==
  \/ AttachConnect
  \/ AttachConnectFails
  \/ \E n \in 1..MaxRead : EngineData(n)
  \/ EngineCloses
  \/ AttachConsume
  \/ AttachWait

\* dockerAttach has created its socket and installed its listeners
InitAttach ==
  /\ SANDBOX_NETWORK_MODE = "bridge"
  /\ SANDBOX_PREVIEW_PORT = IntPort(3000)
  /\ reaper = IdleReaper
  /\ rateMap = EmptyMap
  /\ rated = NoRated
  /\ relay = [c \in Conns |-> IdleRelay]
  /\ \E r \in Replies :
       att = [IdleAttach EXCEPT !.reply = r, !.sock = "connecting", !.result = "pending",
                                !.flowing = TRUE, !.listeners = {"header"}]
  /\ faults = MaxFaults
  /\ ncalls = 0
  /\ nruns = 0
  /\ ncloses = 0
  /\ nexits = 0
  /\ engine = [p \in Projects |-> Absent]
  /\ lastUsedMap = EmptyMap
  /\ creationLocks = EmptyMap
  /\ call = [k \in Callers |-> IdleCall]
  /\ now = 0
  /\ conn = [c \in Conns |-> IdleConn]
  /\ sessionMap = {}
  /\ projectSessions = EmptyMap
  /\ userSessions = EmptyMap
  /\ sets = [r \in Refs |-> {}]

SpecAttach == InitAttach /\ [][NextAttach]_vars

\* ---- the /terminal/:projectId ws handlers ----
Opening(c) == conn[c].pc \in {"lookup", "goc", "attach"}
\* map.get(key) ?? new Set()
RefOf(m, key, fresh) == IF MapHas(m, key) THEN m[key] ELSE fresh
\* the open handler returns: its captured sets go out of scope
Ended(cn, c) == [cn EXCEPT ![c].pc = "end", ![c].projSet = NoRef, ![c].userSet = NoRef]

\* open(ws): the cap checks, then the project lookup is issued
WsOpen(c, p, u) ==
  /\ conn[c].ws = "new"
  /\ \A d \in Conns : d[2] < c[2] => conn[d].ws # "new"
  /\ Cardinality({d \in Conns : Opening(d)}) < MaxOpening
  /\ LET projSet == RefOf(projectSessions, p, <<"P", c>>)
         userSet == RefOf(userSessions, u, <<"U", c>>)
         cn == [conn EXCEPT ![c].ws = "open", ![c].proj = p, ![c].user = u]
     IN IF u = NoUser
        THEN WsCloseFor(c, 1008, "Unauthorized", Ended(cn, c))
        ELSE IF Cardinality(sets[projSet]) >= MAX_SESSIONS_PER_PROJECT
        THEN WsCloseFor(c, 1008, "Too many terminal sessions for this project", Ended(cn, c))
        ELSE IF Cardinality(sets[userSet]) >= MAX_SESSIONS_PER_USER
        THEN WsCloseFor(c, 1008, "Too many terminal sessions for this user", Ended(cn, c))
        ELSE /\ conn' = [cn EXCEPT ![c].pc = "lookup", ![c].projSet = projSet,
                                   ![c].userSet = userSet]
             /\ UNCHANGED regVars
  /\ UNCHANGED lcVars
  /\ UNCHANGED <<ncloses, nexits>>

\* open(ws) resumes with the project: not found closes the connection,
\* otherwise ContainerManager.getOrCreateContainer is called
Lookup(c) ==
  /\ conn[c].pc = "lookup"
  /\ IF OwnerOf(conn[c].proj) # conn[c].user
     THEN /\ WsCloseFor(c, 1008, "Project not found", Ended(conn, c))
          /\ UNCHANGED lcVars
     ELSE /\ GetOrCreate(c, conn[c].proj)
          /\ conn' = [conn EXCEPT ![c].pc = "goc"]
          /\ UNCHANGED ncalls
          /\ UNCHANGED regVars
  /\ UNCHANGED <<ncloses, nexits>>

\* open(ws) resumes from getOrCreateContainer (the catch closes the
\* connection on an error) and the engine serves its container.inspect():
\* if (!info.State.Running) close, otherwise dockerAttach(info.Id) is issued
AfterGoc(c) ==
  /\ conn[c].pc = "goc" /\ call[c].op = "goc" /\ call[c].pc = "done"
  /\ IF /\ call[c].res = "ok"
        /\ engine[conn[c].proj].exists /\ engine[conn[c].proj].running
     THEN /\ conn' = [conn EXCEPT ![c].pc = "attach", ![c].gone = FALSE]
          /\ UNCHANGED regVars
     ELSE WsCloseFor(c, 1011,
                     IF call[c].res = "ok" THEN "Container not running"
                     ELSE "Terminal initialization failed", Ended(conn, c))
  /\ UNCHANGED lcVars
  /\ UNCHANGED <<ncloses, nexits>>

\* the engine serves the attach; on the upgrade the handler installs the
\* listeners and registers the session in sessionMap and both indexes
EngineAttach(c) ==
  /\ conn[c].pc = "attach"
  /\ LET p == conn[c].proj
         u == conn[c].user
     IN IF engine[p].exists /\ ~conn[c].gone
        THEN /\ conn' = [conn EXCEPT ![c].pc = "registered", ![c].sock = "open",
                                     ![c].projSet = NoRef, ![c].userSet = NoRef]
             /\ sessionMap' = sessionMap \cup {c}
             /\ projectSessions' = MapSet(projectSessions, p, conn[c].projSet)
             /\ userSessions' = MapSet(userSessions, u, conn[c].userSet)
             /\ sets' = Collect([r \in Refs |->
                                   IF r \in {conn[c].projSet, conn[c].userSet}
                                   THEN sets[r] \cup {c} ELSE sets[r]],
                                projectSessions', userSessions', conn')
             /\ lastUsedMap' = markUsed(lastUsedMap, p)
        ELSE /\ WsCloseFor(c, 1011, "Terminal initialization failed", Ended(conn, c))
             /\ UNCHANGED lastUsedMap
  /\ UNCHANGED <<SANDBOX_NETWORK_MODE, SANDBOX_PREVIEW_PORT, reaper, rateMap, rated, relay, att, faults, ncalls, nruns, ncloses, nexits, engine, creationLocks, call, now>>

\* closeForShellExit, run by the 'end', 'close' or 'error' event of the docker
\* socket: sessionClosed is set and ContainerManager.stopContainer is called
closeForShellExit(c) ==
  /\ conn[c].pc = "registered" /\ conn[c].sock \in {"ended", "destroyed"}
  /\ conn[c].exit = "no"
  /\ Stop(c, conn[c].proj, [conn EXCEPT ![c].exit = "stopping"])
  /\ UNCHANGED <<ncalls, ncloses, nexits>>
  /\ UNCHANGED regVars

\* the client closes its connection: close(ws) runs cleanupSession
ClientClose(c) ==
  /\ conn[c].ws = "open" /\ ncloses < MaxCloses
  /\ ncloses' = ncloses + 1
  /\ WsCloseFor(c, 1000, "", conn)
  /\ UNCHANGED lcVars
  /\ UNCHANGED nexits

\* the shell of the sandbox of project p exits (Cmd ['/bin/sh', '-i'] is the
\* container's main process): the container stops and the engine ends the
\* streams attached to it
ShellExits(p) ==
  /\ engine[p].exists /\ engine[p].running /\ nexits < MaxExits
  /\ \E c \in Conns : conn[c].proj = p /\ conn[c].sock = "open"
  /\ nexits' = nexits + 1
  /\ UNCHANGED ncloses
  /\ engine' = [engine EXCEPT ![p].running = FALSE]
  /\ conn' = EndStreams(conn, p)
  /\ call' = [j \in Callers |-> Obs(j,
       IF call[j].proj = p
       THEN [call[j] EXCEPT !.dirty = @ \/ call[j].resp # "-", !.quiet = FALSE]
       ELSE call[j])]
  /\ UNCHANGED <<SANDBOX_NETWORK_MODE, SANDBOX_PREVIEW_PORT, reaper, rateMap, rated, relay, att, faults, ncalls, nruns, lastUsedMap, creationLocks, now>>
  /\ UNCHANGED regVars

NextTerm ==
  \/ \E c \in TermConns, p \in TermProjects, u \in Users : WsOpen(c, p, u)
  \/ \E c \in Conns : Lookup(c)
  \/ \E k \in Callers : RunStep(k)
  \/ \E k \in Callers : Settle(k)
  \/ \E c \in Conns : AfterGoc(c)
  \/ \E c \in Conns : EngineAttach(c)
  \/ \E c \in Conns : closeForShellExit(c)
  \/ \E k \in Callers : AfterStop(k)
  \/ \E c \in Conns : ClientClose(c)
  \/ \E p \in TermProjects : ShellExits(p)

\* the terminal handlers start on a host without sandboxes
InitTerm ==
  /\ Init
  /\ \A p \in Projects : engine[p] = Absent
  /\ SANDBOX_NETWORK_MODE = "bridge"

SpecTerm == InitTerm /\ [][NextTerm]_vars

\* connections are opened and none goes away
NextCap ==
  \/ \E c \in Conns, p \in TermProjects, u \in Users : WsOpen(c, p, u)
  \/ \E c \in Conns : Lookup(c)
  \/ \E k \in Callers : RunStep(k)
  \/ \E k \in Callers : Settle(k)
  \/ \E c \in Conns : AfterGoc(c)
  \/ \E c \in Conns : EngineAttach(c)

SpecCap == InitTerm /\ [][NextCap]_vars

\* prisma.projects.findFirst rejects: the await is outside the handler's try,
\* open(ws) ends by throwing and calls no ws.close
LookupFails(c) ==
  /\ conn[c].pc = "lookup" /\ faults > 0
  /\ faults' = faults - 1
  /\ conn' = Ended(conn, c)
  /\ sets' = Collect(sets, projectSessions, userSessions, conn')
  /\ UNCHANGED <<SANDBOX_NETWORK_MODE, SANDBOX_PREVIEW_PORT, reaper, rateMap, rated, relay, att, ncalls, nruns, ncloses, nexits,
                 engine, lastUsedMap, creationLocks, call, now>>
  /\ UNCHANGED <<sessionMap, projectSessions, userSessions>>

\* the engine accepts the attach connection and sends no complete header:
\* dockerAttach stays pending and open(ws) stays at its await
AttachStalls(c) ==
  /\ conn[c].pc = "attach" /\ faults > 0
  /\ faults' = faults - 1
  /\ conn' = [conn EXCEPT ![c].pc = "stalled"]
  /\ UNCHANGED <<SANDBOX_NETWORK_MODE, SANDBOX_PREVIEW_PORT, reaper, rateMap, rated, relay, att, ncalls, nruns, ncloses, nexits,
                 engine, lastUsedMap, creationLocks, call, now>>
  /\ UNCHANGED regVars

\* the terminal handlers with unauthenticated clients, a failing database
\* and a stalling attach
NextSession ==
  \/ \E c \in TermConns, p \in TermProjects, u \in Users \cup {NoUser} : WsOpen(c, p, u)
  \/ \E c \in Conns : Lookup(c)
  \/ \E c \in Conns : LookupFails(c)
  \/ \E k \in Callers : RunStep(k)
  \/ \E k \in Callers : Settle(k)
  \/ \E c \in Conns : AfterGoc(c)
  \/ \E c \in Conns : EngineAttach(c)
  \/ \E c \in Conns : AttachStalls(c)
  \/ \E c \in Conns : closeForShellExit(c)
  \/ \E k \in Callers : AfterStop(k)
  \/ \E c \in Conns : ClientClose(c)
  \/ \E p \in TermProjects : ShellExits(p)

SpecSession == InitTerm /\ [][NextSession]_vars

\* ---- the relay handlers ----
\* message(ws, msg): dropped unless the session is registered and its docker
\* socket writable, the heartbeat swallowed, everything else written
ClientMessage(c, msg) ==
  /\ conn[c].ws = "open" /\ Len(relay[c].rcvd) < MaxMsgs
  /\ relay' = [relay EXCEPT
       ![c].rcvd = Append(@, msg),
       ![c].written =
         IF c \notin sessionMap \/ conn[c].sock # "open" THEN @
         ELSE IF msg.type = "string" /\ msg.data = WS_HEARTBEAT_PAYLOAD THEN @
         ELSE Append(@, DataOf(msg))]
  /\ UNCHANGED <<SANDBOX_NETWORK_MODE, SANDBOX_PREVIEW_PORT, reaper, rateMap, rated, att, faults, ncalls, nruns, ncloses, nexits,
                 engine, lastUsedMap, creationLocks, call, now, conn>>
  /\ UNCHANGED regVars
\* dockerSocket.on('data', chunk => ws.send(chunk.toString('utf8')))
SandboxData(c, chunk) ==
  /\ conn[c].sock = "open" /\ Len(relay[c].out) < MaxChunks
  /\ relay' = [relay EXCEPT
       ![c].out = Append(@, chunk),
       ![c].sent = IF conn[c].ws = "open" THEN Append(@, Utf8Decode(chunk)) ELSE @]
  /\ UNCHANGED <<SANDBOX_NETWORK_MODE, SANDBOX_PREVIEW_PORT, reaper, rateMap, rated, att, faults, ncalls, nruns, ncloses, nexits,
                 engine, lastUsedMap, creationLocks, call, now, conn>>
  /\ UNCHANGED regVars

\* one client, its terminal and its sandbox
RelayConns == {<<"c", 1>>}
NextRelay ==
  \/ \E c \in RelayConns, p \in TermProjects : WsOpen(c, p, OwnerOf(p))
  \/ \E c \in RelayConns : Lookup(c)
  \/ \E k \in RelayConns : RunStep(k)
  \/ \E k \in RelayConns : Settle(k)
  \/ \E c \in RelayConns : AfterGoc(c)
  \/ \E c \in RelayConns : EngineAttach(c)
  \/ \E c \in RelayConns, msg \in Messages : ClientMessage(c, msg)
  \/ \E c \in RelayConns, chunk \in Chunks : SandboxData(c, chunk)
  \/ \E c \in RelayConns : closeForShellExit(c)
  \/ \E k \in RelayConns : AfterStop(k)
  \/ \E c \in RelayConns : ClientClose(c)
  \/ \E p \in TermProjects : ShellExits(p)

SpecRelay == InitTerm /\ [][NextRelay]_vars

\* ---- a terminal session next to the idle reaper and the clock ----
NextIdle ==
  \/ \E c \in RelayConns, p \in TermProjects : WsOpen(c, p, OwnerOf(p))
  \/ \E c \in RelayConns : Lookup(c)
  \/ \E k \in RelayConns : RunStep(k)
  \/ \E k \in RelayConns : Settle(k)
  \/ \E c \in RelayConns : AfterGoc(c)
  \/ \E c \in RelayConns : EngineAttach(c)
  \/ \E c \in RelayConns, msg \in Messages : ClientMessage(c, msg)
  \/ \E c \in RelayConns : closeForShellExit(c)
  \/ \E k \in RelayConns : AfterStop(k)
  \/ \E c \in RelayConns : ClientClose(c)
  \/ \E d \in {REAPER_INTERVAL, IDLE_TIMEOUT} : Tick(d)
  \/ ReaperSweep
  \/ ReaperNext
  \/ ReaperAfterStop

SpecIdle == InitTerm /\ [][NextIdle]_vars

\* ---- the rate limiter called by the routes, and the clock ----
\* a request of user u reaches a rate-limited route
RateCheck(u) ==
  /\ rateMap' = checkRateLimit(rateMap, u, now).map
  /\ rated' = [user |-> u, ok |-> checkRateLimit(rateMap, u, now).ok, odd |-> ~rated.odd]
  /\ UNCHANGED <<SANDBOX_NETWORK_MODE, SANDBOX_PREVIEW_PORT, reaper, relay, att, faults, ncalls, nruns, ncloses, nexits,
                 engine, lastUsedMap, creationLocks, call, now, conn>>
  /\ UNCHANGED regVars

\* resetRateLimit(u) is called for a user who has a record
RateReset(u) ==
  /\ MapHas(rateMap, u)
  /\ rateMap' = resetRateLimit(rateMap, u)
  /\ UNCHANGED <<SANDBOX_NETWORK_MODE, SANDBOX_PREVIEW_PORT, reaper, rated, relay, att, faults, ncalls, nruns, ncloses, nexits,
                 engine, lastUsedMap, creationLocks, call, now, conn>>
  /\ UNCHANGED regVars

\* time passes by one window, or by one millisecond more
NextRate ==
  \/ \E u \in Users : RateCheck(u)
  \/ \E u \in Users : RateReset(u)
  \/ \E d \in {WINDOW, WINDOW + 1} : Tick(d)

SpecRate == InitEntry /\ [][NextRate]_vars

\* ---- properties of the lifecycle controller ----
GocDone(k) == call[k].op = "goc" /\ call[k].pc = "done"
Issued(rec, req) == \E i \in DOMAIN rec.log : rec.log[i] = req
FirstAt(rec, req) ==
  IF Issued(rec, req) THEN CHOOSE i \in DOMAIN rec.log :
                             rec.log[i] = req /\ \A j \in 1..(i - 1) : rec.log[j] # req
  ELSE 0
IsPrefix(s, t) == Len(s) <= Len(t) /\ \A i \in DOMAIN s : s[i] = t[i]
\* the recorded configuration of a container is what createContainer records
\* under the configured policy (network mode, environment, port binding)
RecordedMatch(info) == info.mode = SANDBOX_NETWORK_MODE /\ info.env /\ info.bind
FoundStale(k) == call[k].found = "present" /\ call[k].info.mode # SANDBOX_NETWORK_MODE

\* C1: getOrCreate calls for one project that are in flight together, with no
\* stop or remove interleaved with either, are served by one and the same run
\* of the reconciliation (so one create call and one outcome for all of them).
C1_ConcurrentCallsShareOneRun ==
  \A k, j \in Callers :
    (/\ call[k].op = "goc" /\ call[j].op = "goc"
     /\ InFlight(k) /\ InFlight(j)
     /\ call[k].proj = call[j].proj
     /\ call[k].clean /\ call[j].clean)
    => call[k].run = call[j].run

\* C2: a getOrCreate that returns successfully (no other caller active on the
\* project) leaves the sandbox existing and running, having created and
\* started it if absent, only started it if present, matching and stopped,
\* and issued nothing but the inspect if it was running and matching.
C2_ReturnsRunningSandbox ==
  \A k \in Callers :
    (GocDone(k) /\ call[k].res = "ok" /\ call[k].quiet)
    => LET c == engine[call[k].proj]
           info == call[k].info
       IN /\ c.exists /\ c.running
          /\ call[k].found = "absent" => call[k].log = <<"inspect", "create", "start">>
          /\ (call[k].found = "present" /\ RecordedMatch(info) /\ ~info.running)
               => call[k].log = <<"inspect", "start">>
          /\ (call[k].found = "present" /\ RecordedMatch(info) /\ info.running)
               => call[k].log = <<"inspect">>

\* C6: stop(P) followed by stop(P), with no other caller active on P and no
\* engine failure, completes without error the second time and leaves no
\* idle-tracking entry for P.
C6_StopTwiceIsIdempotent ==
  \A k \in Callers :
    (/\ call[k].op = "stop" /\ call[k].pc = "done"
     /\ call[k].prevOp = "stop" /\ call[k].quiet
     /\ ~IsFault(call[k].resp))
    => (call[k].res = "ok" /\ ~MapHas(lastUsedMap, call[k].proj))

\* C7: when a stop(P) call settles, the idle-tracking table has no entry for
\* P, whatever the outcome (engine unavailable included), and an outcome
\* other than success or not-found is reported as an error.
C7_StopAlwaysClearsTracking ==
  [][\A k \in Callers :
       (call[k].op = "stop" /\ call[k].pc = "stop" /\ call'[k].pc = "done")
       => (/\ ~MapHas(lastUsedMap', call[k].proj)
           /\ call[k].resp \notin {"ok", "404"} => call'[k].res = "err")]_vars

\* C8: when a remove(P) call settles after the engine remove succeeded,
\* reported not-found or failed with another error, neither the idle-tracking
\* table nor the creation-lock table has an entry for P, and not-found is
\* reported as success.
C8_RemoveClearsTrackingAndLock ==
  [][\A k \in Callers :
       (/\ call[k].op = "remove" /\ call[k].pc = "remove" /\ call'[k].pc = "done"
        /\ call[k].resp \in {"ok", "404", "500"})
       => (/\ ~MapHas(lastUsedMap', call[k].proj)
           /\ ~MapHas(creationLocks', call[k].proj)
           /\ call[k].resp \in {"ok", "404"} => call'[k].res = "ok"
           /\ call[k].resp = "500" => call'[k].res = "err")]_vars

\* C8 witness: a remove of an absent sandbox has returned successfully while a
\* getOrCreate run for the project is still in flight, and the run's lock
\* entry is gone
C8_Witness ==
  \E k, j \in Callers :
    /\ call[k].op = "remove" /\ call[k].pc = "done"
    /\ call[k].resp = "404" /\ call[k].res = "ok"
    /\ call[j].op = "goc" /\ call[j].pc \in EnginePcs /\ call[j].proj = call[k].proj
    /\ ~MapHas(creationLocks, call[k].proj)
    /\ ~MapHas(lastUsedMap, call[k].proj)

\* C9 (as stated): a getOrCreate that found a sandbox of another network mode
\* and issues a create has issued the remove before it, and the stop before
\* the remove if the sandbox was running; the sandbox existing after a
\* successful return has the configured mode.
C9_StopsAndRemovesBeforeCreate ==
  \A k \in Callers :
    (call[k].op = "goc" /\ FoundStale(k))
    => /\ Issued(call[k], "create")
            => /\ 0 < FirstAt(call[k], "remove")
               /\ FirstAt(call[k], "remove") < FirstAt(call[k], "create")
               /\ call[k].info.running
                    => /\ 0 < FirstAt(call[k], "stop")
                       /\ FirstAt(call[k], "stop") < FirstAt(call[k], "remove")
       /\ (call[k].pc = "done" /\ call[k].res = "ok" /\ engine[call[k].proj].exists)
            => engine[call[k].proj].mode = SANDBOX_NETWORK_MODE

\* C9 (amended): such a getOrCreate issues stop (if the sandbox was running),
\* then remove, then create, then start, never in another order; it skips
\* the remove only when the engine answers its stop with not-found; and the
\* sandbox existing after a successful return has the configured mode.
C9_RecreateInOrder ==
  \A k \in Callers :
    (call[k].op = "goc" /\ FoundStale(k))
    => /\ IF call[k].info.running
          THEN \/ IsPrefix(call[k].log, <<"inspect", "stop", "remove", "create", "start">>)
               \/ IsPrefix(call[k].log, <<"inspect", "stop", "create", "start">>)
          ELSE IsPrefix(call[k].log, <<"inspect", "remove", "create", "start">>)
       /\ (call[k].pc = "done" /\ call[k].res = "ok")
            => /\ Issued(call[k], "create")
               /\ engine[call[k].proj].exists
                    => engine[call[k].proj].mode = SANDBOX_NETWORK_MODE

\* C9 witness: a getOrCreate found a running sandbox of another mode, issued
\* stop, remove, create and start in this order and returned, and the sandbox
\* now has the configured mode
C9_Witness ==
  \E k \in Callers :
    /\ GocDone(k) /\ call[k].res = "ok" /\ FoundStale(k) /\ call[k].info.running
    /\ call[k].log = <<"inspect", "stop", "remove", "create", "start">>
    /\ engine[call[k].proj].exists
    /\ engine[call[k].proj].mode = SANDBOX_NETWORK_MODE

\* C10: a getOrCreate (no other caller active on the project) that finds a
\* sandbox whose recorded configuration matches the policy issues no remove
\* and no create, and a start exactly if the sandbox was not running; a
\* second getOrCreate right after a successful one issues no create.
C10_MatchingSandboxIsReused ==
  \A k \in Callers :
    (GocDone(k) /\ call[k].res = "ok" /\ call[k].quiet)
    => /\ (call[k].found = "present" /\ RecordedMatch(call[k].info))
            => /\ ~Issued(call[k], "remove")
               /\ ~Issued(call[k], "create")
               /\ Issued(call[k], "start") <=> ~call[k].info.running
       /\ (call[k].prevOp = "goc" /\ call[k].prevRes = "ok")
            => ~Issued(call[k], "create")

\* the runs of _getOrCreateContainer for project p whose promise is unsettled
RunsInFlight(p) ==
  {k \in Callers : call[k].op = "goc" /\ call[k].pc \in EnginePcs /\ call[k].proj = p}

\* C20: under every interleaving of getOrCreate, stop and remove calls on one
\* project, at most one run of the reconciliation is in flight at any time.
C20_AtMostOneRunInFlight ==
  \A p \in Projects : Cardinality(RunsInFlight(p)) <= 1

\* ---- properties of the entry points and the reaper ----
\* C11: every call of an entry point with an identifier that is not a strict
\* v4 UUID is rejected with no engine request issued, and no engine request
\* is ever issued for such an identifier, by a handler or by the reaper.
C11_InvalidIdsNeverReachEngine ==
  \A x \in DOMAIN engine :
    ~assertSafeProjectId(x)
    => /\ \A k \in Callers :
            (call[k].proj = x /\ call[k].pc = "done")
            => (call[k].res = "err" /\ call[k].resp = "badid" /\ call[k].log = <<>>)
       /\ \A k \in Callers : call[k].proj = x => call[k].pc \in {"idle", "done"}
       /\ ~(reaper.pc = "stop" /\ reaper.proj = x)

\* the configured network mode or preview port is not acceptable
BadConfig ==
  \/ SANDBOX_NETWORK_MODE \notin ALLOWED_NETWORK_MODES
  \/ ~ValidPort(SANDBOX_PREVIEW_PORT)

\* the configuration or the runtime of call rec is not acceptable
BadInput(rec) == rec.rt \notin ALLOWED_RUNTIMES \/ BadConfig

\* the errors the inputs of call rec call for
ExpectedErrors(rec) ==
  {e \in {"badrt", "badcfg"} :
     \/ e = "badrt" /\ rec.rt \notin ALLOWED_RUNTIMES
     \/ e = "badcfg" /\ BadConfig}

\* C12: a getOrCreate with a runtime outside the allowed set settles with the
\* invalid-runtime error, one under an invalid network mode or preview port
\* with the invalid-configuration error (the control socket being
\* accessible); no engine request was issued and no idle-tracking entry is
\* added.
C12_InvalidRuntimeOrConfigFails ==
  [][\A k \in Callers :
       (/\ call[k].op = "goc" /\ InFlight(k) /\ call'[k].pc = "done"
        /\ BadInput(call[k]) /\ call'[k].resp # "unavail")
       => (/\ call'[k].res = "err"
           /\ call'[k].resp \in ExpectedErrors(call[k])
           /\ call'[k].log = <<>>
           /\ lastUsedMap' = lastUsedMap)]_vars

\* the entry of project p is older than the idle threshold at time t
Idle(p, t) == t - lastUsedMap[p] > IDLE_TIMEOUT

\* C13: in a sweep the reaper issues a stop exactly for the tracked projects
\* whose entry is older than the idle threshold, the entry of a project it
\* stopped is removed when the sweep resumes (the engine not failing), and
\* the sweep touches neither the entry nor the sandbox of any other project.
C13_ReaperStopsIdleOnly ==
  [][/\ (reaper.pc = "scan" /\ reaper'.pc = "stop")
          => /\ Idle(reaper'.proj, reaper.at)
             /\ \A p \in DOMAIN engine \ {reaper'.proj} : engine'[p] = engine[p]
             /\ lastUsedMap' = lastUsedMap
     /\ (reaper.pc = "stop" /\ reaper'.pc = "scan")
          => /\ ~IsFault(reaper.resp) => ~MapHas(lastUsedMap', reaper.proj)
             /\ \A p \in DOMAIN lastUsedMap \ {reaper.proj} :
                  MapHas(lastUsedMap', p) /\ lastUsedMap'[p] = lastUsedMap[p]
             /\ engine' = engine
     /\ (reaper.pc = "scan" /\ reaper'.pc = "idle")
          => /\ \A p \in DOMAIN lastUsedMap : Idle(p, reaper.at) => p \in reaper.seen
             /\ lastUsedMap' = lastUsedMap /\ engine' = engine]_vars

\* a step of a getStatus / getPreview call of caller k: the call is made, or
\* it returns
ReadStep(k) ==
  /\ call'[k].op \in {"status", "preview"}
  /\ \/ ncalls' = ncalls + 1 /\ call'[k] # call[k]
     \/ call[k].pc = "read" /\ call'[k].pc = "done"

\* the value getStatus / getPreview report for an absent sandbox
AbsentValue(op) ==
  IF op = "status" THEN [kind |-> "status", exists |-> FALSE, running |-> FALSE]
  ELSE [kind |-> "preview", available |-> FALSE]

\* C14: no step of a getStatus or getPreview call changes the idle-tracking
\* table, the creation-lock table or a container; the call issues at most an
\* inspect, and for an absent sandbox it returns {exists: false, running:
\* false} / available: false instead of throwing.
C14_ReadsArePure ==
  [][\A k \in Callers :
       ReadStep(k)
       => (/\ lastUsedMap' = lastUsedMap
           /\ creationLocks' = creationLocks
           /\ engine' = engine
           /\ call'[k].log \in {<<>>, <<"inspect">>}
           /\ (call'[k].pc = "done" /\ call'[k].resp = "404")
                => (call'[k].res = "ok" /\ call'[k].val = AbsentValue(call'[k].op)))]_vars

\* C14 witness: getStatus of a tracked project whose sandbox is absent has
\* returned {exists: false, running: false}, and the project is still tracked
C14_Witness ==
  \E k \in Callers :
    /\ call[k].op = "status" /\ call[k].pc = "done" /\ call[k].resp = "404"
    /\ call[k].res = "ok" /\ call[k].val = AbsentValue("status")
    /\ MapHas(lastUsedMap, call[k].proj)

\* ---- properties of dockerAttach ----
\* the bytes of the reply read so far that follow its header
StreamRead(a) ==
  SubSeq(a.reply.tail, 1, a.pos - Len(a.reply.head))

\* C15: however the reply is split into reads, the end of the header is
\* detected once all its bytes have been read, and after a 101 the consumer
\* has been handed exactly the bytes read so far that follow the header, in
\* order, the bytes that came in the same read as the end of the header first.
C15_LeftoverDeliveredFirst ==
  /\ att.pos >= Len(att.reply.head) /\ att.sock # "none" => att.headerDone
  /\ (att.result = "socket" /\ "relay" \in att.listeners)
       => att.delivered = StreamRead(att)

\* C16: an attach whose connection has stayed open for the whole window
\* without a complete header has settled.
C16_AttachSettlesWithinWindow ==
  (att.sock = "open" /\ ~att.headerDone /\ att.waited = MaxWait)
    => att.result # "pending"

\* ---- properties of the terminal sessions ----
\* the registered sessions of a project / of a user
SessionsOf(p) == {d \in sessionMap : conn[d].proj = p}
SessionsOfUser(u) == {d \in sessionMap : conn[d].user = u}
\* connection c has an entry in sessionMap or in a set an index holds
Tracked(c) ==
  \/ c \in sessionMap
  \/ \E key \in DOMAIN projectSessions : c \in sets[projectSessions[key]]
  \/ \E key \in DOMAIN userSessions : c \in sets[userSessions[key]]

\* C3: a registered session whose client closed the connection while the
\* sandbox stream was open never runs the shell-exit handling, which is what
\* requests the stop of the project's sandbox.
C3_ClientCloseRequestsNoStop ==
  \A c \in Conns : conn[c].cause = "client" => conn[c].exit = "no"

\* C4: once the shell-exit handling of a registered session whose sandbox
\* stream ended has completed, the client connection is closed (with 4000,
\* or by the client itself in the meantime), the stop of the project was
\* requested, and no tracking entry of the session is left.
C4_StreamEndTearsSessionDown ==
  \A c \in Conns :
    (conn[c].pc = "registered" /\ conn[c].exit = "done")
    => /\ conn[c].ws = "closed" /\ conn[c].code \in {4000, 1000}
       /\ call[c].op = "stop"
       /\ ~Tracked(c)

\* C5: an open on a project that has 3 registered sessions, or by a user who
\* has 5, is closed with code 1008 at once, starts no lookup / getOrCreate /
\* attach, and leaves sessionMap and both indexes as they were.
C5_CapRejectsOpen ==
  [][\A c \in Conns :
       (/\ conn[c].ws = "new" /\ conn'[c].ws # "new"
        /\ \/ Cardinality(SessionsOf(conn'[c].proj)) >= MAX_SESSIONS_PER_PROJECT
           \/ Cardinality(SessionsOfUser(conn'[c].user)) >= MAX_SESSIONS_PER_USER)
       => (/\ conn'[c].ws = "closed" /\ conn'[c].code = 1008
           /\ conn'[c].pc = "end"
           /\ UNCHANGED <<sessionMap, projectSessions, userSessions, call>>
           /\ \A key \in DOMAIN projectSessions :
                sets'[projectSessions[key]] = sets[projectSessions[key]]
           /\ \A key \in DOMAIN userSessions :
                sets'[userSessions[key]] = sets[userSessions[key]])]_vars

\* C17: a connection that passed the cap checks and is open without a
\* registered session still has its open handler at work (at the lookup, in
\* getOrCreate or at the attach being served): the handler neither ends nor
\* stalls without closing the connection with a reason code.
C17_OpenEndsRegisteredOrClosed ==
  \A c \in Conns :
    (conn[c].ws = "open" /\ c \notin sessionMap) => Opening(c)

\* the cause of closure a close reason of the endpoint stands for
CauseOf(reason) ==
  CASE reason \in {"Too many terminal sessions for this project",
                   "Too many terminal sessions for this user"} -> "cap-exceeded"
    [] reason = "Unauthorized" -> "unauthorized"
    [] reason = "Project not found" -> "project-not-found"
    [] reason = "Shell exited" -> "shell-exited"
    [] reason = "" -> "normal"
    [] OTHER -> "failure"
ClaimedCauses ==
  {"cap-exceeded", "unauthorized", "project-not-found", "shell-exited", "normal"}

\* C18: two connections closed for different causes among cap-exceeded,
\* unauthorized, project-not-found, shell-exited and normal closure were
\* closed with different codes.
C18_CloseCodesDistinct ==
  \A c, d \in Conns :
    (/\ conn[c].ws = "closed" /\ conn[d].ws = "closed"
     /\ CauseOf(conn[c].reason) \in ClaimedCauses
     /\ CauseOf(conn[d].reason) \in ClaimedCauses
     /\ CauseOf(conn[c].reason) # CauseOf(conn[d].reason))
    => conn[c].code # conn[d].code

\* the messages of a sequence that are not the heartbeat, as written
RECURSIVE Forwarded(_)
Forwarded(msgs) ==
  IF msgs = <<>> THEN <<>>
  ELSE (IF Head(msgs).type = "string" /\ Head(msgs).data = WS_HEARTBEAT_PAYLOAD
        THEN <<>> ELSE <<DataOf(Head(msgs))>>)
       \o Forwarded(Tail(msgs))

\* C19: on a connection that is a registered session, what has been written
\* to the sandbox stream is the messages received on the connection, the
\* heartbeat left out, each once and in arrival order, and what has been
\* sent to the client is the chunks received from the sandbox, in order.
C19_RelayForwardsEverything ==
  \A c \in Conns :
    (c \in sessionMap /\ conn[c].ws = "open" /\ conn[c].sock = "open")
    => /\ relay[c].written = Forwarded(relay[c].rcvd)
       /\ relay[c].sent = [i \in 1..Len(relay[c].out) |-> Utf8Decode(relay[c].out[i])]

\* ---- properties of the session caps and indexes ----
\* the registered sessions of project p / of user u whose client is connected
LiveSessionsOf(p) == {d \in SessionsOf(p) : conn[d].ws = "open"}
LiveSessionsOfUser(u) == {d \in SessionsOfUser(u) : conn[d].ws = "open"}

\* C21: at every moment a project has at most MAX_SESSIONS_PER_PROJECT (3)
\* registered sessions and a user at most MAX_SESSIONS_PER_USER (5).
C21_SessionCapsHold ==
  /\ \A p \in Projects : Cardinality(LiveSessionsOf(p)) <= MAX_SESSIONS_PER_PROJECT
  /\ \A u \in Users : Cardinality(LiveSessionsOfUser(u)) <= MAX_SESSIONS_PER_USER

\* the client of connection c closed it (ws close code 1000)
ClientClosed(c) == conn[c].ws = "closed" /\ conn[c].code = 1000
\* the open handler of connection c has returned
OpenFinished(c) == conn[c].pc \in {"end", "registered"}

\* C22: once the client of a connection has closed it and its open handler has
\* returned, the connection has no entry in sessionMap nor in a set of the
\* by-project or by-user index, and its docker socket is not open.
C22_ClosedConnectionLeavesNothing ==
  \A c \in Conns :
    (ClientClosed(c) /\ OpenFinished(c)) => (~Tracked(c) /\ conn[c].sock # "open")

\* ---- properties of the creation locks and the idle tracking ----
\* a getOrCreate call of caller k begins in this step
GocBegins(k) == ~InFlight(k) /\ call'[k].op = "goc" /\ call'[k].pc \notin {"idle", "done"}

\* C23: the creation-lock table has an entry for P only while the run that
\* owns the entry is in flight; the step in which a run settles (returning or
\* throwing) leaves no entry for P; and a getOrCreate(P) that begins while no
\* run for P is in flight starts a run of its own and owns the new entry.
C23_LockOnlyWhileRunInFlight ==
  [][/\ \A p \in Projects : MapHas(creationLocks', p) =>
          (call'[creationLocks'[p]].op = "goc" /\ call'[creationLocks'[p]].proj = p
           /\ call'[creationLocks'[p]].pc \in EnginePcs)
     /\ \A k \in Callers :
          (k \in RunsInFlight(call[k].proj) /\ call'[k].pc = "done")
          => ~MapHas(creationLocks', call[k].proj)
     /\ \A k \in Callers, p \in Projects :
          (GocBegins(k) /\ call'[k].proj = p /\ RunsInFlight(p) = {})
          => (call'[k].pc = "inspect" /\ call'[k].join = k /\ LockHolder(p)' = k)]_vars

\* C23 witness: a getOrCreate that followed a failed one of the same caller
\* ran a reconciliation of its own (it issued engine requests) and has
\* settled, and the table has no entry for the project
C23_Witness ==
  \E k \in Tasks :
    /\ GocDone(k) /\ call[k].prevOp = "goc" /\ call[k].prevRes = "err"
    /\ call[k].join = k /\ call[k].log # <<>>
    /\ RunsInFlight(call[k].proj) = {}
    /\ ~MapHas(creationLocks, call[k].proj)

\* ---- properties of cleanupSession ----
\* the close handler of connection c runs cleanupSession in this step
CleanupRuns(c) == conn[c].ws = "open" /\ conn'[c].ws = "closed"
\* the members of the set index m holds for key
Held(m, key) == sets[m[key]]
\* one more cleanupSession(c) would change nothing
CleanupIsNoOp(c) ==
  /\ SockAfterCleanup(conn, c) = conn
  /\ sessionMap \ {c} = sessionMap
  /\ IndexAfterCleanup(projectSessions, conn[c].proj, c) = projectSessions
  /\ IndexAfterCleanup(userSessions, conn[c].user, c) = userSessions
  /\ SetsAfterCleanup(c, conn[c].proj, conn[c].user) = sets
\* index m keeps every member other than c, drops a key exactly if the set
\* it holds is left without members, and holds no empty set afterwards
IndexCleaned(m, m2, c) ==
  /\ DOMAIN m2 \subseteq DOMAIN m
  /\ \A key \in DOMAIN m :
       /\ key \notin DOMAIN m2 <=> Held(m, key) \ {c} = {}
       /\ key \in DOMAIN m2 => sets'[m2[key]] = Held(m, key) \ {c}
  /\ \A key \in DOMAIN m2 : sets'[m2[key]] # {}

\* C24: whenever cleanupSession runs for a connection, registered or not,
\* running it again would change nothing; the sessionMap entries, sockets and
\* index memberships of every other connection are as before; and an index
\* drops a key exactly when the set it holds loses its last member, so that
\* no empty set stays in an index.
C24_CleanupIdempotent ==
  [][\A c \in Conns :
       CleanupRuns(c)
       => (/\ CleanupIsNoOp(c)'
           /\ sessionMap' = sessionMap \ {c}
           /\ \A d \in Conns \ {c} : conn'[d] = conn[d]
           /\ IndexCleaned(projectSessions, projectSessions', c)
           /\ IndexCleaned(userSessions, userSessions', c)
           /\ (~Tracked(c) => UNCHANGED <<sessionMap, projectSessions, userSessions>>))]_vars

\* C24 witness: cleanupSession ran for a registered session (its docker
\* socket was destroyed) and then for an unregistered connection of the same
\* project, and a third session of the project is still registered and indexed
C24_Witness ==
  \E c, d, e \in Conns :
    /\ conn[c].ws = "closed" /\ conn[c].sock = "destroyed" /\ ~Tracked(c)
    /\ conn[d].ws = "closed" /\ conn[d].sock = "none" /\ conn[d].proj = conn[c].proj
    /\ d # c /\ ~Tracked(d)
    /\ e \in sessionMap /\ conn[e].proj = conn[c].proj
    /\ MapHas(projectSessions, conn[e].proj) /\ e \in Held(projectSessions, conn[e].proj)

\* ---- properties of the reaper and the idle tracking ----
\* C25: when a sweep of the reaper ends, with no engine failure so far, none
\* of the entries it acted on (issued a stop for) is left in the idle-tracking
\* table with the timestamp the sweep found idle, so that no later sweep acts
\* on it again.
C25_SweepRemovesWhatItActsOn ==
  [][(reaper.pc = "scan" /\ reaper'.pc = "idle" /\ faults = MaxFaults)
       => \A p \in reaper.seen : ~(MapHas(lastUsedMap', p) /\ Idle(p, reaper.at))]_vars

\* ---- properties of the rate limiter ----
\* a checkRateLimit(u) call is made in this step
Checked(u) == rated'.user = u /\ rated'.odd # rated.odd
\* user u has a window that has not passed at time t
InWindow(u, t) == MapHas(rateMap, u) /\ t <= rateMap[u].reset

Indexed(m, key, c) == MapHas(m, key) /\ c \in Held(m, key)

\* C27: in every state a connection is in sessionMap exactly if it is a
\* member of the set the by-project index holds for its project and of the
\* set the by-user index holds for its user.
C27_IndexesAgreeWithSessionMap ==
  \A c \in Conns :
    c \in sessionMap
    <=> (/\ Indexed(projectSessions, conn[c].proj, c)
         /\ Indexed(userSessions, conn[c].user, c))

\* no getOrCreate, stop or remove call for project p is in flight
NoCallInFlight(p) == \A k \in Callers : call[k].proj = p => Free(k)

\* C28: when no lifecycle call for P is in flight (and the engine never
\* failed), a sandbox of P that is running after a successful getOrCreate(P)
\* has an entry in the idle-tracking table.
C28_RunningSandboxIsTracked ==
  \A p \in Projects :
    (/\ NoCallInFlight(p) /\ faults = MaxFaults
     /\ engine[p].exists /\ engine[p].running
     /\ \E k \in Callers : GocDone(k) /\ call[k].res = "ok" /\ call[k].proj = p)
    => MapHas(lastUsedMap, p)

\* C29: under each allowed network mode, a getOrCreate that follows a
\* successful getOrCreate of the same caller for the project (no other caller
\* active on it in between) judges the sandbox it finds compatible: it issues
\* the inspect and at most a start, no stop, no remove and no create.
C29_OwnSandboxIsKept ==
  \A k \in Callers :
    (/\ GocDone(k) /\ call[k].res = "ok" /\ call[k].quiet
     /\ call[k].prevOp = "goc" /\ call[k].prevRes = "ok"
     /\ SANDBOX_NETWORK_MODE \in ALLOWED_NETWORK_MODES)
    => (/\ call[k].found = "present"
        /\ ~requiresContainerRecreate(call[k].info)
        /\ call[k].log \in {<<"inspect">>, <<"inspect", "start">>})

\* the registered sessions of project p whose client is connected and whose
\* sandbox stream is open
ActiveSessionsOf(p) == {d \in LiveSessionsOf(p) : conn[d].sock = "open"}

\* C30: the reaper issues no stop for the sandbox of a project that has a
\* registered terminal session with its client connected and its stream open.
C30_ReaperSparesProjectsInUse ==
  [][(reaper.pc = "scan" /\ reaper'.pc = "stop")
       => ActiveSessionsOf(reaper'.proj) = {}]_vars

====
